---- MODULE Spec2Model ----
(***************************************************************************)
(* lhasaRSS: the concurrent feed-ingestion pipeline.                       *)
(*                                                                         *)
(* Two dispatchers of the repository are modelled.  variant = "feeds" is   *)
(* fetchAllFeeds (feed_fetcher.go) with its caller main (main.go): one     *)
(* goroutine per link, a channel semaphore, a WaitGroup, a buffered result *)
(* channel, a closer goroutine and the collection loop.  variant = "rss"   *)
(* is RSSProcessor.fetchAllRSS (pkg/rss): a fixed pool of workers reading  *)
(* a task channel, each feed handled by processFeed through utils.WithRetry*)
(* under a per-feed context.                                               *)
(*                                                                         *)
(* A Go string is a sequence of text tokens ("" is <<>>), so that          *)
(* fmt.Sprintf is concatenation and strings.Contains is membership.  A nil *)
(* pointer or a nil error is the record Nil.  Durations are in seconds.    *)
(***************************************************************************)
EXTENDS Integers, Sequences, FiniteSets, TLC

\* ------------------------------------------------------------------ bounds
\* number of links in the input list
NumFeeds == 3
\* capacity of the semaphore channel: maxGoroutines := 10 in the source,
\* scaled down so that more links than slots can be explored
maxGoroutines == 2
\* cfg.MaxConcurrency, the number of workers (default 10), scaled down likewise
MaxConcurrency == 2
\* timestamps are 0..MaxTime
MaxTime == 1

\* ------------------------------------------------------- program constants
\* fetchFeedWithRetry(rssLink, fp, 3, 1*time.Second, 2.0)
maxRetries == 3
baseWait == 1
backoffMultiple == 2
\* cfg.MaxRetries and cfg.RetryInterval (seconds) of the worker-pool variant
MaxRetries == 3
RetryInterval == 10

Feeds == 1..NumFeeds
Workers == 1..MaxConcurrency
Times == 0..MaxTime
Nil == [nil |-> TRUE]

VARIABLES
    variant,      \* "feeds" (main and fetchAllFeeds), "rss" (Run and fetchAllRSS) or
                  \* "compare" (areArticlesIdentical called on its own) or
                  \* "sanitize" (a sanitizer called on its own)
    rssLinks,     \* the input list of feed URLs
    avatarMapper, \* the AvatarMapper: host -> avatar and host -> name
    world,        \* what the servers and the clock can answer during the run
    ctxDone,      \* the run's context has expired (ctx.Done() is closed)
    mainpc,       \* position of the dispatching function
    next,         \* index of the dispatch loop into rssLinks
    sem,          \* number of tokens in the semaphore channel sem
    wg,           \* counter of the WaitGroup
    closerpc,     \* position of the goroutine that closes resultChan
    pc,           \* per link: position of its fetch task
    tries,        \* per link: i, the loop index of the retry loop
    lastErr,      \* per link: lastErr of the retry loop
    ret,          \* per link: what the retry controller returned (feed, err)
    log,          \* per link: fetch path and outcome of every attempt made
    waits,        \* per link: the backoff waits slept, in order
    resultChan,   \* content of the buffered channel resultChan
    chanClosed,   \* number of times close(resultChan) was executed
    results,      \* results collected by the collection loop
    taskCh,       \* fetchAllRSS: content of the buffered channel taskCh
    taskClosed,   \* fetchAllRSS: close(taskCh) was executed
    wpc,          \* fetchAllRSS: per worker, its position
    cur,          \* fetchAllRSS: per worker, the feed it is processing
    delay,        \* WithRetry: per feed, the variable delay
    articles,     \* fetchAllRSS: the slice articles
    errs,         \* fetchAllRSS: the slice errs
    globalStats,  \* the counters of the process-wide RunStats
    problems,     \* the problem tally
    successCount, \* main: number of results without error
    newArticles,  \* main: the sorted articles handed to persistence
    store,        \* main: the save target and what it answered to the read of data.json
    existingArticles, \* main: the articles getExistingData returned
    existingErr,  \* main: the error getExistingData returned
    identical,    \* main: the value of areArticlesIdentical, Nil while not called
    uploads,      \* main: the calls of uploadToGitHub and uploadToCos, in order
    appLog,       \* main: the messages passed to appendLog, in order
    arg,          \* a function called on its own: its argument
    out,          \* a function called on its own: its name and value, Nil before
    logChan,      \* logging: errorChan and summaryChan, their buffers and whether closed
    logFile,      \* logging: errLogFile and sumLogFile, whether open and their lines
    logWorker,    \* logging: errorLogWorker and summaryLogWorker, position and message held
    closepc,      \* logging: the position of main inside CloseLogger
    closeCalls,   \* logging: number of calls of CloseLogger
    handed,       \* logging: the messages LogError and LogSummary have sent, per channel
    panicMsg      \* the run-time panic that ended the program, "" if none

vars == <<variant, rssLinks, avatarMapper, world, ctxDone, mainpc, next, sem, wg, closerpc,
          pc, tries, lastErr, ret, log, waits, resultChan, chanClosed,
          results, problems, successCount, newArticles,
          taskCh, taskClosed, wpc, cur, delay, articles, errs, globalStats,
          store, existingArticles, existingErr, identical, uploads, appLog, arg, out,
          logChan, logFile, logWorker, closepc, closeCalls, handed, panicMsg>>

\* the variables only fetchAllRSS and processFeed write
rssVars == <<taskCh, taskClosed, wpc, cur, delay, articles, errs, globalStats>>

\* the variables of a function called on its own
callVars == <<arg, out>>

\* the variables of package logging and of the entry point that uses it
loggerVars == <<logChan, logFile, logWorker, closepc, closeCalls, handed, panicMsg>>

\* the variables only main writes after the sort
mainVars == <<store, existingArticles, existingErr, identical, uploads, appLog>>

\* the variables only fetchAllFeeds and main write
feedsVars == <<sem, closerpc, resultChan, chanClosed, results, problems, successCount,
               newArticles, mainVars>>

\* ---------------------------------------------------------------- strings
\* strings.Contains(s, tok) for a one-token pattern
Contains(s, tok) == \E k \in DOMAIN s : s[k] = tok

\* strings.TrimSpace(link) == ""
IsBlank(link) == \A k \in DOMAIN link : link[k] = " "

\* the message texts 解析RSS失败 and RSS为空 of fetchAllFeeds
ParseFailText == "ParseRSSFailed"
FeedEmptyText == "RSSEmpty"

\* an error value: its Error() text, the error it wraps (%w) or Nil, and the
\* number of the retry attempt that produced it (0 outside a retry loop)
Err(text, cause) == [text |-> text, cause |-> cause, attempt |-> 0]

\* wrapErrorf(err, format, args...): "file:line => msg | 原因: err", nil for nil
wrapErrorf(err, msg) ==
    IF err = Nil THEN Nil
    ELSE Err(<<"feed_fetcher.go:line", "=>">> \o msg \o <<"|", "cause:">> \o err.text, err)

\* ----------------------------------------------------------------- inputs
\* a feed URL; a marked one carries the text 解析RSS失败 in its path
LinkOf(f, marked) ==
    <<"https://", "host" \o ToString(f), "/">>
        \o (IF marked THEN <<ParseFailText>> ELSE <<"feed.xml">>)

\* AvatarMapper.extractDomain(urlStr): the host of the URL
extractDomain(link) == IF Len(link) >= 2 THEN link[2] ELSE ""

\* AvatarMapper.GetAvatarByURL(urlStr): (avatar, found)
GetAvatarByURL(am, link) ==
    LET domain == extractDomain(link)
    IN  IF domain = "" THEN [avatar |-> <<>>, found |-> FALSE]
        ELSE IF domain \in DOMAIN am.avatarMap
        THEN [avatar |-> am.avatarMap[domain], found |-> TRUE]
        ELSE [avatar |-> <<>>, found |-> FALSE]

\* AvatarMapper.GetNameByURL(urlStr): (name, found), the namesake lookup
GetNameByURL(am, link) ==
    LET domain == extractDomain(link)
    IN  IF domain = "" THEN [name |-> <<>>, found |-> FALSE]
        ELSE IF domain \in DOMAIN am.nameMap
        THEN [name |-> am.nameMap[domain], found |-> TRUE]
        ELSE [name |-> <<>>, found |-> FALSE]

\* ------------------------------------------------------------- time values
\* a *time.Time that is not nil
Ptr(t) == [v |-> t]

\* layouts tried by parseTime, in order
formats == <<"RFC1123Z", "RFC1123", "RFC3339", "RFC3339ms", "RFC1123+0000">>

\* a published-time string written in some layout
TimeString(layout, t) == <<layout, ToString(t)>>

\* parseTime(timeStr): the first layout that matches, else an error
parseTime(timeStr) ==
    IF /\ Len(timeStr) = 2
       /\ \E k \in DOMAIN formats : formats[k] = timeStr[1]
       /\ \E t \in Times : ToString(t) = timeStr[2]
    THEN [t |-> CHOOSE t \in Times : ToString(t) = timeStr[2], err |-> Nil]
    ELSE [t |-> 0, err |-> Err(<<"cannot parse time:">> \o timeStr, Nil)]

\* a formatting that yields the empty string
FormatNothing(t) == <<>>

\* pubTime.Format("Jan 02, 2006"): the calendar day, two ticks to a day
FormatDay(t) == <<"day", ToString(t \div 2)>>

\* -------------------------------------------------------------- feed data
Item(title, link, pp, pub) ==
    [Title |-> title, Link |-> link, PublishedParsed |-> pp, Published |-> pub,
     Updated |-> <<>>]

\* documents a feed server can serve for link number f
DocEmpty(f) ==
    [Title |-> <<"Blog", ToString(f)>>, Link |-> <<"https://", "site" \o ToString(f), "/">>,
     Image |-> Nil, Items |-> <<>>]
DocFull(f, t) ==
    [Title |-> <<"Blog", ToString(f)>>, Link |-> <<"https://", "site" \o ToString(f), "/">>,
     Image |-> [URL |-> <<"https://", "site" \o ToString(f), "/", "logo.png">>],
     Items |-> << Item(<<"New", ToString(f)>>, <<"link-new", ToString(f)>>, Ptr(t),
                       TimeString("RFC1123Z", t)),
                  Item(<<"Old", ToString(f)>>, <<"link-old", ToString(f)>>, Ptr(0),
                       TimeString("RFC1123Z", 0)) >>]
DocBare(f) ==
    [Title |-> <<"Blog", ToString(f)>>, Link |-> <<>>, Image |-> Nil,
     Items |-> << Item(<<>>, <<"link-bare", ToString(f)>>, Nil, <<"yesterday">>) >>]
DocHome(f) ==
    [Title |-> <<"Blog", ToString(f)>>, Link |-> <<"https://", "site" \o ToString(f), "/">>,
     Image |-> [URL |-> <<>>],
     Items |-> << Item(<<"Post", "&", "more", ToString(f)>>, <<"link-post", ToString(f)>>, Nil,
                       TimeString("RFC3339", MaxTime)) >>]
FeedDocs(f) == {DocEmpty(f), DocBare(f), DocHome(f)} \cup {DocFull(f, t) : t \in Times}

\* a sanitizer that deletes the first forbidden byte and no other
removeFirstInvalid(data) ==
    LET keep(b) == b = 9 \/ b = 10 \/ b = 13 \/ b >= 32
        bad == {k \in DOMAIN data : ~keep(data[k])}
    IN  IF bad = {} THEN data
        ELSE LET first == CHOOSE k \in bad : \A j \in bad : k <= j
             IN  SubSeq(data, 1, first - 1) \o SubSeq(data, first + 1, Len(data))

\* removeInvalidXMLChars(data): keep \t, \n, \r and every byte >= 0x20
removeInvalidXMLChars(data) ==
    LET keep(b) == b = 9 \/ b = 10 \/ b = 13 \/ b >= 32
        F[k \in 0..Len(data)] ==
            IF k = 0 THEN <<>>
            ELSE IF keep(data[k]) THEN Append(F[k - 1], data[k]) ELSE F[k - 1]
    IN  F[Len(data)]

\* a response body: its bytes outside the markup proper, and the document the
\* markup stands for (Nil when the markup is not a feed)
Body(bytes, doc) == [bytes |-> bytes, doc |-> doc]

\* parser.ParseString(string(cleanData)) of gofeed: a control character that
\* XML 1.0 forbids, or markup that is no feed, is a parse error
ParseString(body) ==
    IF \E k \in DOMAIN body.bytes :
           body.bytes[k] < 32 /\ body.bytes[k] \notin {9, 10, 13}
    THEN [feed |-> Nil, err |-> Err(<<"XML syntax error">>, Nil)]
    ELSE IF body.doc = Nil
    THEN [feed |-> Nil, err |-> Err(<<"Failed to detect feed type">>, Nil)]
    ELSE [feed |-> body.doc, err |-> Nil]

\* what the server of link number f can answer to one GET, every case: no
\* connection, a certificate that does not verify, a status, a body
AllResponses(f) ==
    {[neterr |-> TRUE, badcert |-> FALSE, status |-> 0, body |-> Body(<<>>, Nil)]}
    \cup {[neterr |-> FALSE, badcert |-> TRUE, status |-> 200,
           body |-> Body(<<60>>, DocFull(f, 0))]}
    \cup {[neterr |-> FALSE, badcert |-> FALSE, status |-> s, body |-> Body(<<>>, DocEmpty(f))] :
              s \in {204, 500}}
    \cup {[neterr |-> FALSE, badcert |-> FALSE, status |-> 200, body |-> Body(<<60>>, Nil)]}
    \cup {[neterr |-> FALSE, badcert |-> FALSE, status |-> 200, body |-> Body(<<8, 60>>, d)] :
              d \in FeedDocs(f)}

\* the answers explored while several tasks run concurrently: a server error,
\* an empty feed, and a regular feed with a control character in its body
Responses(f) ==
    {[neterr |-> FALSE, badcert |-> FALSE, status |-> 500, body |-> Body(<<>>, Nil)],
     [neterr |-> FALSE, badcert |-> FALSE, status |-> 200, body |-> Body(<<60>>, DocEmpty(f))],
     [neterr |-> FALSE, badcert |-> FALSE, status |-> 200,
      body |-> Body(<<8, 60>>, DocFull(f, f % (MaxTime + 1)))]}

\* a fetch that takes every status from 200 to 299 for a success
fetchFeedAny2xx(link, resp) ==
    IF resp.neterr
    THEN [feed |-> Nil, err |-> Err(<<"Get">> \o link \o <<"dial tcp: timeout">>, Nil)]
    ELSE IF resp.badcert
    THEN [feed |-> Nil, err |-> Err(<<"Get">> \o link \o <<"x509: certificate invalid">>, Nil)]
    ELSE IF resp.status < 200 \/ resp.status > 299
    THEN [feed |-> Nil, err |-> Err(<<"http error:", ToString(resp.status)>>, Nil)]
    ELSE ParseString(Body(removeInvalidXMLChars(resp.body.bytes), resp.body.doc))

\* fetchFeed(rssLink, parser): http.Get, status check, sanitize, parse
fetchFeed(link, resp) ==
    IF resp.neterr
    THEN [feed |-> Nil, err |-> Err(<<"Get">> \o link \o <<"dial tcp: timeout">>, Nil)]
    ELSE IF resp.badcert
    THEN [feed |-> Nil, err |-> Err(<<"Get">> \o link \o <<"x509: certificate invalid">>, Nil)]
    ELSE IF resp.status # 200
    THEN [feed |-> Nil, err |-> Err(<<"http error:", ToString(resp.status)>>, Nil)]
    ELSE ParseString(Body(removeInvalidXMLChars(resp.body.bytes), resp.body.doc))

\* fetchFeedWithFix(rssLink, parser): the same steps over a client that skips
\* TLS verification and sends a custom User-Agent
fetchFeedWithFix(link, resp) ==
    IF resp.neterr
    THEN [feed |-> Nil, err |-> Err(<<"Get">> \o link \o <<"dial tcp: timeout">>, Nil)]
    ELSE IF resp.status # 200
    THEN [feed |-> Nil, err |-> Err(<<"HTTP error:", ToString(resp.status)>>, Nil)]
    ELSE ParseString(Body(removeInvalidXMLChars(resp.body.bytes), resp.body.doc))

\* ------------------------------------------------------- avatar resolution
\* an element of a homepage's markup, in document order
Elem(tag, rel, href, property, content) ==
    [tag |-> tag, rel |-> rel, href |-> href, property |-> property, content |-> content]

\* what a homepage server can answer: an error, a status, a parsed document
HomePages ==
    {[neterr |-> TRUE, status |-> 0, doc |-> <<>>],
     [neterr |-> FALSE, status |-> 404, doc |-> <<>>],
     [neterr |-> FALSE, status |-> 200, doc |-> <<>>],
     [neterr |-> FALSE, status |-> 200,
      doc |-> << Elem("meta", <<>>, <<>>, <<"og:image">>, <<"og.png">>),
                 Elem("link", <<"stylesheet">>, <<"/", "site.css">>, <<>>, <<>>),
                 Elem("link", <<"shortcut", "icon">>, <<"/", "icon.png">>, <<>>, <<>>),
                 Elem("link", <<"icon">>, <<"https://", "cdn", "/", "second.png">>, <<>>, <<>>) >>],
     [neterr |-> FALSE, status |-> 200,
      doc |-> << Elem("meta", <<>>, <<>>, <<"og:image">>, <<"og.png">>) >>]}

\* fallbackFavicon(blogURL): scheme://host/favicon.ico, "" without scheme or host
fallbackFavicon(blogURL) ==
    IF Len(blogURL) < 2 THEN <<>> ELSE <<blogURL[1], blogURL[2], "/", "favicon.ico">>

\* makeAbsoluteURL(baseStr, refStr): resolve refStr against baseStr
makeAbsoluteURL(baseStr, refStr) ==
    IF refStr # <<>> /\ refStr[1] \in {"https://", "http://"} THEN refStr
    ELSE IF Len(baseStr) < 2 THEN refStr
    ELSE IF refStr # <<>> /\ refStr[1] = "/" THEN <<baseStr[1], baseStr[2]>> \o refStr
    ELSE <<baseStr[1], baseStr[2], "/">> \o refStr

\* a homepage reader that prefers og:image to the icon links
fetchBlogLogoOgFirst(blogURL, home) ==
    IF home.neterr \/ home.status # 200 THEN fallbackFavicon(blogURL)
    ELSE LET doc == home.doc
             icons == {k \in DOMAIN doc : /\ doc[k].tag = "link"
                                          /\ Contains(doc[k].rel, "icon")
                                          /\ doc[k].href # <<>>}
             ogs == {k \in DOMAIN doc : /\ doc[k].tag = "meta"
                                        /\ doc[k].property = <<"og:image">>
                                        /\ doc[k].content # <<>>}
             first(S) == CHOOSE k \in S : \A j \in S : k <= j
             last(S) == CHOOSE k \in S : \A j \in S : k >= j
         IN  IF ogs # {} THEN makeAbsoluteURL(blogURL, doc[last(ogs)].content)
             ELSE IF icons # {} THEN makeAbsoluteURL(blogURL, doc[first(icons)].href)
             ELSE fallbackFavicon(blogURL)

\* fetchBlogLogo(blogURL): the first <link rel~icon href>, else the last
\* <meta property=og:image content>, else the favicon
fetchBlogLogo(blogURL, home) ==
    IF home.neterr \/ home.status # 200 THEN fallbackFavicon(blogURL)
    ELSE LET doc == home.doc
             icons == {k \in DOMAIN doc : /\ doc[k].tag = "link"
                                          /\ Contains(doc[k].rel, "icon")
                                          /\ doc[k].href # <<>>}
             ogs == {k \in DOMAIN doc : /\ doc[k].tag = "meta"
                                        /\ doc[k].property = <<"og:image">>
                                        /\ doc[k].content # <<>>}
             first(S) == CHOOSE k \in S : \A j \in S : k <= j
             last(S) == CHOOSE k \in S : \A j \in S : k >= j
         IN  IF icons # {} THEN makeAbsoluteURL(blogURL, doc[first(icons)].href)
             ELSE IF ogs # {} THEN makeAbsoluteURL(blogURL, doc[last(ogs)].content)
             ELSE fallbackFavicon(blogURL)

\* a resolver that asks the homepage first and the feed's image last
getFeedAvatarURLHomeFirst(fd, home) ==
    IF fd.Link # <<>> THEN fetchBlogLogo(fd.Link, home)
    ELSE IF fd.Image # Nil /\ fd.Image.URL # <<>> THEN fd.Image.URL
    ELSE <<>>

\* getFeedAvatarURL(feed): the embedded image, else the homepage's logo, else ""
getFeedAvatarURL(fd, home) ==
    IF fd.Image # Nil /\ fd.Image.URL # <<>> THEN fd.Image.URL
    ELSE IF fd.Link # <<>> THEN fetchBlogLogo(fd.Link, home)
    ELSE <<>>

\* the GET requests getFeedAvatarURL(feed) issues: one for the homepage, and
\* only when the feed has no embedded image URL and has a link
homeRequests(fd) ==
    IF fd.Image # Nil /\ fd.Image.URL # <<>> THEN <<>>
    ELSE IF fd.Link # <<>> THEN <<fd.Link>>
    ELSE <<>>

\* what the avatar's server can answer to the HEAD request: an error or a status
HeadResponses == {[neterr |-> TRUE, status |-> 0], [neterr |-> FALSE, status |-> 200],
                  [neterr |-> FALSE, status |-> 404]}

\* checkURLAvailable(urlStr): the HEAD request answered 200
checkURLAvailable(urlStr, head) == ~head.neterr /\ head.status = 200

BROKEN == <<"BROKEN">>

\* ---------------------------------------------------------- the fetch task
\* a retry loop that never switches to the hardened client
FetchPathPlain(i) == "fetchFeed"

\* fetchFeedWithRetry: the fetch path of loop index i
FetchPath(i) == IF i = 0 THEN "fetchFeed" ELSE "fetchFeedWithFix"

\* fetchFeedWithRetry: one attempt of loop index i
fetchAttempt(i, link, resp) ==
    IF FetchPath(i) = "fetchFeed" THEN fetchFeed(link, resp) ELSE fetchFeedWithFix(link, resp)

\* fetchFeedWithRetry: "if i < maxRetries-1", a wait follows the failed attempt
WaitFollows(i) == i < maxRetries - 1

\* math.Pow(x, n) for a natural n
Pow(x, n) == LET P[k \in 0..n] == IF k = 0 THEN 1 ELSE x * P[k - 1] IN P[n]

\* a backoff whose exponent is one too high
backoffOneTooHigh(i) == baseWait * Pow(backoffMultiple, i + 1)

\* fetchFeedWithRetry: wait := baseWait * math.Pow(backoffMultiple, i)
backoffWait(i) == baseWait * Pow(backoffMultiple, i)

\* a result built from the last entry of the feed instead of the first
feedResultLastItem(link, r, home, head, now) ==
    IF r.err # Nil
    THEN [FeedLink |-> link, Article |-> Nil, ParsedTime |-> 0,
          Err |-> wrapErrorf(r.err, <<ParseFailText, ":">> \o link)]
    ELSE IF r.feed = Nil \/ Len(r.feed.Items) = 0
    THEN [FeedLink |-> link, Article |-> Nil, ParsedTime |-> 0,
          Err |-> wrapErrorf(Err(<<"no content">>, Nil), <<FeedEmptyText, ":">> \o link)]
    ELSE LET avatarURL == getFeedAvatarURL(r.feed, home)
             avatar == IF avatarURL = <<>> THEN <<>>
                       ELSE IF ~checkURLAvailable(avatarURL, head) THEN BROKEN
                       ELSE avatarURL
             latest == r.feed.Items[Len(r.feed.Items)]
             pubTime == IF latest.PublishedParsed # Nil THEN latest.PublishedParsed.v
                        ELSE IF latest.Published # <<>> /\ parseTime(latest.Published).err = Nil
                        THEN parseTime(latest.Published).t
                        ELSE now
         IN  [FeedLink |-> link, Err |-> Nil, ParsedTime |-> pubTime,
              Article |-> [BlogName |-> r.feed.Title, Title |-> latest.Title,
                           Link |-> latest.Link, Published |-> FormatDay(pubTime),
                           Avatar |-> avatar]]

\* the goroutine body of fetchAllFeeds from the return of fetchFeedWithRetry to
\* the send: the feedResult it builds
feedResult(link, r, home, head, now) ==
    IF r.err # Nil
    THEN [FeedLink |-> link, Article |-> Nil, ParsedTime |-> 0,
          Err |-> wrapErrorf(r.err, <<ParseFailText, ":">> \o link)]
    ELSE IF r.feed = Nil \/ Len(r.feed.Items) = 0
    THEN [FeedLink |-> link, Article |-> Nil, ParsedTime |-> 0,
          Err |-> wrapErrorf(Err(<<"no content">>, Nil), <<FeedEmptyText, ":">> \o link)]
    ELSE LET avatarURL == getFeedAvatarURL(r.feed, home)
             avatar == IF avatarURL = <<>> THEN <<>>
                       ELSE IF ~checkURLAvailable(avatarURL, head) THEN BROKEN
                       ELSE avatarURL
             latest == r.feed.Items[1]
             pubTime == IF latest.PublishedParsed # Nil THEN latest.PublishedParsed.v
                        ELSE IF latest.Published # <<>> /\ parseTime(latest.Published).err = Nil
                        THEN parseTime(latest.Published).t
                        ELSE now
         IN  [FeedLink |-> link, Err |-> Nil, ParsedTime |-> pubTime,
              Article |-> [BlogName |-> r.feed.Title, Title |-> latest.Title,
                           Link |-> latest.Link, Published |-> FormatDay(pubTime),
                           Avatar |-> avatar]]

\* ------------------------------------------------------------ aggregation
\* a tally in which a parse failure clears the empty feeds noted before it
tallyResetting(pr, r, am, defaultAvatar) ==
    IF r.Err # Nil
    THEN LET errStr == r.Err.text
         IN  IF Contains(errStr, ParseFailText)
             THEN [pr EXCEPT !.parseFails = Append(@, r.FeedLink), !.feedEmpties = <<>>]
             ELSE IF Contains(errStr, FeedEmptyText)
             THEN [pr EXCEPT !.feedEmpties = Append(@, r.FeedLink)]
             ELSE pr
    ELSE IF r.Article.Avatar = <<>> THEN [pr EXCEPT !.noAvatar = Append(@, r.FeedLink)]
    ELSE IF r.Article.Avatar = BROKEN THEN [pr EXCEPT !.brokenAvatar = Append(@, r.FeedLink)]
    ELSE pr

\* a tally that does not know the broken-avatar category
tallyNoBroken(pr, r, am, defaultAvatar) ==
    IF r.Err # Nil
    THEN LET errStr == r.Err.text
         IN  IF Contains(errStr, ParseFailText)
             THEN [pr EXCEPT !.parseFails = Append(@, r.FeedLink)]
             ELSE IF Contains(errStr, FeedEmptyText)
             THEN [pr EXCEPT !.feedEmpties = Append(@, r.FeedLink)]
             ELSE pr
    ELSE IF r.Article.Avatar = <<>> THEN [pr EXCEPT !.noAvatar = Append(@, r.FeedLink)]
    ELSE pr

\* the collection loop of fetchAllFeeds: the tally after result r
\* a tally that files an empty feed under parseFails
tallyEmptyAsParseFail(pr, r, am, defaultAvatar) ==
    IF r.Err # Nil
    THEN [pr EXCEPT !.parseFails = Append(@, r.FeedLink)]
    ELSE LET mapped == GetAvatarByURL(am, r.FeedLink)
             avatar == IF am # Nil /\ mapped.found THEN mapped.avatar ELSE r.Article.Avatar
         IN  IF avatar = <<>> THEN [pr EXCEPT !.noAvatar = Append(@, r.FeedLink)]
             ELSE IF avatar = BROKEN THEN [pr EXCEPT !.brokenAvatar = Append(@, r.FeedLink)]
             ELSE pr

tally(pr, r, am, defaultAvatar) ==
    IF r.Err # Nil
    THEN LET errStr == r.Err.text
         IN  IF Contains(errStr, ParseFailText)
             THEN [pr EXCEPT !.parseFails = Append(@, r.FeedLink)]
             ELSE IF Contains(errStr, FeedEmptyText)
             THEN [pr EXCEPT !.feedEmpties = Append(@, r.FeedLink)]
             ELSE pr
    ELSE LET mapped == GetAvatarByURL(am, r.FeedLink)
             avatar == IF am # Nil /\ mapped.found THEN mapped.avatar ELSE r.Article.Avatar
         IN  IF avatar = <<>> THEN [pr EXCEPT !.noAvatar = Append(@, r.FeedLink)]
             ELSE IF avatar = BROKEN THEN [pr EXCEPT !.brokenAvatar = Append(@, r.FeedLink)]
             ELSE pr

\* a collection loop that applies the mapper and substitutes nothing
collectedNoDefault(r, am, defaultAvatar) ==
    IF r.Err # Nil THEN r
    ELSE LET mappedA == GetAvatarByURL(am, r.FeedLink)
             mappedN == GetNameByURL(am, r.FeedLink)
             a1 == IF am # Nil /\ mappedA.found THEN mappedA.avatar ELSE r.Article.Avatar
             n1 == IF am # Nil /\ mappedN.found THEN mappedN.name ELSE r.Article.BlogName
         IN  [r EXCEPT !.Article = [@ EXCEPT !.Avatar = a1, !.BlogName = n1]]

\* the collection loop of fetchAllFeeds: the result as appended to results
collected(r, am, defaultAvatar) ==
    IF r.Err # Nil THEN r
    ELSE LET mappedA == GetAvatarByURL(am, r.FeedLink)
             mappedN == GetNameByURL(am, r.FeedLink)
             a1 == IF am # Nil /\ mappedA.found THEN mappedA.avatar ELSE r.Article.Avatar
             n1 == IF am # Nil /\ mappedN.found THEN mappedN.name ELSE r.Article.BlogName
             a2 == IF a1 = <<>> \/ a1 = BROKEN THEN defaultAvatar ELSE a1
         IN  [r EXCEPT !.Article = [@ EXCEPT !.Avatar = a2, !.BlogName = n1]]

\* cfg.DefaultAvatar when DEFAULT_AVATAR is set
DefaultAvatar == <<"https://", "cdn", "/", "default.png">>

\* cfg.DefaultAvatar when DEFAULT_AVATAR is not set: os.Getenv gives "" and
\* Validate does not ask for it
NoDefaultAvatar == <<>>

\* an extraction that gives up at the first failed result
itemsUntilError(rs) ==
    LET F[k \in 0..Len(rs)] ==
            IF k = 0 THEN <<>>
            ELSE IF \E j \in 1..k : rs[j].Err # Nil THEN F[k - 1]
            ELSE Append(F[k - 1], [article |-> rs[k].Article, t |-> rs[k].ParsedTime])
    IN  F[Len(rs)]

\* main: the successful results, as (article, t) pairs in result order
itemsWithTime(rs) ==
    LET F[k \in 0..Len(rs)] ==
            IF k = 0 THEN <<>>
            ELSE IF rs[k].Err = Nil
            THEN Append(F[k - 1], [article |-> rs[k].Article, t |-> rs[k].ParsedTime])
            ELSE F[k - 1]
    IN  F[Len(rs)]

\* a sort that may also rearrange the ties of a slice that is in order
sortSliceAnyOrder(items) ==
    LET n == Len(items)
        perms == {p \in [1..n -> 1..n] : \A a, b \in 1..n : a # b => p[a] # p[b]}
    IN  {[k \in 1..n |-> items[p[k]]] : p \in
            {q \in perms : \A a, b \in 1..n : a < b => ~(items[q[b]].t > items[q[a]].t)}}

\* sort.Slice(items, less = t[i].After(t[j])) of go 1.24 (go.mod), a pattern-
\* defeating quicksort: a slice in which no element is after an earlier one is
\* left as it is (insertion sort up to 12 elements, partialInsertionSort
\* beyond, neither swaps); any other slice becomes some permutation in which
\* no later element is after an earlier one (the sort is not guaranteed to be
\* stable)
sortSlice(items) ==
    LET n == Len(items)
        perms == {p \in [1..n -> 1..n] : \A a, b \in 1..n : a # b => p[a] # p[b]}
    IN  IF \A a, b \in 1..n : a < b => ~(items[b].t > items[a].t)
        THEN {items}
        ELSE {[k \in 1..n |-> items[p[k]]] : p \in
                {q \in perms : \A a, b \in 1..n : a < b => ~(items[q[b]].t > items[q[a]].t)}}

\* ------------------------------------------------- fetchAllFeeds: actions
\* a dispatcher that starts every goroutine at once
semUnbounded == TRUE

\* "sem <- struct{}{}" can proceed: the channel of capacity maxGoroutines has room
semHasRoom == sem < maxGoroutines

\* a Wait that does not wait
wgNoWait == TRUE

\* wg.Wait() can return: the counter is zero
wgWait == wg = 0

\* a retry loop that runs one pass too many
retryLoopOneMore(i) == i <= maxRetries

\* fetchFeedWithRetry: the loop condition "i < maxRetries"
retryLoopCond(i) == i < maxRetries

\* the dispatch loop: skip a blank link, else wg.Add(1), acquire a slot of
\* sem (blocks while sem is full) and start the goroutine
Dispatch ==
    /\ variant = "feeds" /\ mainpc = "dispatch" /\ next <= Len(rssLinks)
    /\ IF IsBlank(rssLinks[next])
       THEN /\ next' = next + 1
            /\ UNCHANGED <<sem, wg, pc>>
       ELSE /\ semHasRoom
            /\ wg' = wg + 1
            /\ sem' = sem + 1
            /\ pc' = [pc EXCEPT ![next] = "attempt"]
            /\ next' = next + 1
    /\ UNCHANGED <<loggerVars, callVars, rssVars, mainVars, variant, rssLinks, avatarMapper, world, ctxDone, mainpc, closerpc, tries,
                   lastErr, ret, log, waits, resultChan, chanClosed, results,
                   problems, successCount, newArticles>>

\* the end of the dispatch loop: start the closer goroutine, go on to collect
StartCloser ==
    /\ variant = "feeds" /\ mainpc = "dispatch" /\ next > Len(rssLinks)
    /\ mainpc' = "collect"
    /\ closerpc' = "wait"
    /\ UNCHANGED <<loggerVars, callVars, rssVars, mainVars, variant, rssLinks, avatarMapper, world, ctxDone, next, sem, wg, pc, tries,
                   lastErr, ret, log, waits, resultChan, chanClosed, results,
                   problems, successCount, newArticles>>

\* fetchFeedWithRetry: one pass of the loop body up to the wait
Attempt(f) ==
    /\ variant = "feeds" /\ pc[f] = "attempt"
    /\ \E resp \in world.feeds[f] :
          LET i == tries[f]
              r == fetchAttempt(i, rssLinks[f], resp)
          IN  /\ log' = [log EXCEPT ![f] = Append(@, [path |-> FetchPath(i), ok |-> r.err = Nil])]
              /\ IF r.err = Nil
                 THEN /\ ret' = [ret EXCEPT ![f] = [feed |-> r.feed, err |-> Nil]]
                      /\ pc' = [pc EXCEPT ![f] = "fetched"]
                      /\ lastErr' = [lastErr EXCEPT ![f] = Nil]
                      /\ UNCHANGED tries
                 ELSE /\ lastErr' = [lastErr EXCEPT ![f] = [r.err EXCEPT !.attempt = i + 1]]
                      /\ IF WaitFollows(i)
                         THEN /\ pc' = [pc EXCEPT ![f] = "sleep"]
                              /\ UNCHANGED <<ret, tries>>
                         ELSE /\ tries' = [tries EXCEPT ![f] = i + 1]
                              /\ IF retryLoopCond(i + 1)
                                 THEN /\ pc' = [pc EXCEPT ![f] = "attempt"]
                                      /\ UNCHANGED ret
                                 ELSE /\ pc' = [pc EXCEPT ![f] = "fetched"]
                                      /\ ret' = [ret EXCEPT ![f] = [feed |-> Nil, err |-> lastErr'[f]]]
    /\ UNCHANGED <<loggerVars, callVars, rssVars, mainVars, variant, rssLinks, avatarMapper, world, ctxDone, mainpc, next, sem, wg, closerpc,
                   waits, resultChan, chanClosed, results, problems, successCount,
                   newArticles>>

\* fetchFeedWithRetry: time.Sleep(wait), then i++
Sleep(f) ==
    /\ variant = "feeds" /\ pc[f] = "sleep"
    /\ waits' = [waits EXCEPT ![f] = Append(@, backoffWait(tries[f]))]
    /\ tries' = [tries EXCEPT ![f] = @ + 1]
    /\ pc' = [pc EXCEPT ![f] = IF retryLoopCond(tries'[f]) THEN "attempt" ELSE "fetched"]
    /\ ret' = IF retryLoopCond(tries'[f]) THEN ret
              ELSE [ret EXCEPT ![f] = [feed |-> Nil, err |-> lastErr[f]]]
    /\ UNCHANGED <<loggerVars, callVars, rssVars, mainVars, variant, rssLinks, avatarMapper, world, ctxDone, mainpc, next, sem, wg, closerpc,
                   lastErr, log, resultChan, chanClosed, results, problems,
                   successCount, newArticles>>

\* a goroutine that sends its result and then sends again
PublishAndStay(f) ==
    /\ variant = "feeds" /\ pc[f] = "fetched"
    /\ Len(resultChan) < Len(rssLinks)
    /\ \E home \in world.homes, head \in world.heads, now \in world.clock :
          resultChan' = Append(resultChan, feedResult(rssLinks[f], ret[f], home, head, now))
    /\ UNCHANGED <<loggerVars, callVars, rssVars, mainVars, variant, rssLinks, avatarMapper, world, ctxDone, mainpc, next, sem, wg, closerpc,
                   pc, tries, lastErr, ret, log, waits,
                   chanClosed, results, problems, successCount, newArticles>>

\* a goroutine that appends its result to results itself, besides sending it
PublishAndAppend(f) ==
    /\ variant = "feeds" /\ pc[f] = "fetched"
    /\ Len(resultChan) < Len(rssLinks)
    /\ \E home \in world.homes, head \in world.heads, now \in world.clock :
          LET r == feedResult(rssLinks[f], ret[f], home, head, now)
          IN  /\ resultChan' = Append(resultChan, r)
              /\ results' = Append(results, r)
    /\ pc' = [pc EXCEPT ![f] = "release"]
    /\ tries' = [tries EXCEPT ![f] = 0]
    /\ lastErr' = [lastErr EXCEPT ![f] = Nil]
    /\ ret' = [ret EXCEPT ![f] = Nil]
    /\ log' = [log EXCEPT ![f] = <<>>]
    /\ waits' = [waits EXCEPT ![f] = <<>>]
    /\ UNCHANGED <<loggerVars, callVars, rssVars, mainVars, variant, rssLinks, avatarMapper, world, ctxDone, mainpc, next, sem, wg, closerpc,
                   chanClosed, problems, successCount, newArticles>>

\* the goroutine after fetchFeedWithRetry: build the feedResult and send it on
\* resultChan (a send blocks while the buffer is full); only the deferred calls
\* remain, the locals of the goroutine are dead
Publish(f) ==
    /\ variant = "feeds" /\ pc[f] = "fetched"
    /\ Len(resultChan) < Len(rssLinks)
    /\ \E home \in world.homes, head \in world.heads, now \in world.clock :
          resultChan' = Append(resultChan, feedResult(rssLinks[f], ret[f], home, head, now))
    /\ pc' = [pc EXCEPT ![f] = "release"]
    /\ tries' = [tries EXCEPT ![f] = 0]
    /\ lastErr' = [lastErr EXCEPT ![f] = Nil]
    /\ ret' = [ret EXCEPT ![f] = Nil]
    /\ log' = [log EXCEPT ![f] = <<>>]
    /\ waits' = [waits EXCEPT ![f] = <<>>]
    /\ UNCHANGED <<loggerVars, callVars, rssVars, mainVars, variant, rssLinks, avatarMapper, world, ctxDone, mainpc, next, sem, wg, closerpc,
                   chanClosed, results, problems, successCount, newArticles>>

\* a goroutine that returns without giving its slot back
ReleaseLeak(f) ==
    /\ variant = "feeds" /\ pc[f] = "release"
    /\ pc' = [pc EXCEPT ![f] = "wgdone"]
    /\ UNCHANGED <<loggerVars, callVars, rssVars, mainVars, variant, rssLinks, avatarMapper, world, ctxDone, mainpc, next, sem,
                   wg, closerpc, tries, lastErr, ret, log, waits, resultChan, chanClosed,
                   results, problems, successCount, newArticles>>

\* deferred: <-sem
Release(f) ==
    /\ variant = "feeds" /\ pc[f] = "release"
    /\ sem > 0
    /\ sem' = sem - 1
    /\ pc' = [pc EXCEPT ![f] = "wgdone"]
    /\ UNCHANGED <<loggerVars, callVars, rssVars, mainVars, variant, rssLinks, avatarMapper, world, ctxDone, mainpc, next, wg, closerpc,
                   tries, lastErr, ret, log, waits, resultChan, chanClosed, results,
                   problems, successCount, newArticles>>

\* deferred: wg.Done()
WgDone(f) ==
    /\ variant = "feeds" /\ pc[f] = "wgdone"
    /\ wg' = wg - 1
    /\ pc' = [pc EXCEPT ![f] = "exit"]
    /\ UNCHANGED <<loggerVars, callVars, rssVars, mainVars, variant, rssLinks, avatarMapper, world, ctxDone, mainpc, next, sem, closerpc,
                   tries, lastErr, ret, log, waits, resultChan, chanClosed, results,
                   problems, successCount, newArticles>>

\* the closer goroutine: wg.Wait() has returned, close(resultChan)
CloseChan ==
    /\ variant = "feeds" /\ closerpc = "wait" /\ wgWait
    /\ chanClosed' = chanClosed + 1
    /\ closerpc' = "closed"
    /\ UNCHANGED <<loggerVars, callVars, rssVars, mainVars, variant, rssLinks, avatarMapper, world, ctxDone, mainpc, next, sem, wg, pc,
                   tries, lastErr, ret, log, waits, resultChan, results, problems,
                   successCount, newArticles>>

\* the collection loop: receive one result, tally it, append it to results
Collect ==
    /\ variant = "feeds" /\ mainpc = "collect" /\ resultChan # <<>>
    /\ LET r == Head(resultChan)
       IN  /\ problems' = tally(problems, r, avatarMapper, world.defaultAvatar)
           /\ results' = Append(results, collected(r, avatarMapper, world.defaultAvatar))
    /\ resultChan' = Tail(resultChan)
    /\ UNCHANGED <<loggerVars, callVars, rssVars, mainVars, variant, rssLinks, avatarMapper, world, ctxDone, mainpc, next, sem, wg, closerpc,
                   pc, tries, lastErr, ret, log, waits, chanClosed, successCount,
                   newArticles>>

\* a collection loop that ends as soon as it finds the channel empty
ReturnOnEmpty ==
    /\ variant = "feeds" /\ mainpc = "collect" /\ resultChan = <<>>
    /\ mainpc' = "returned"
    /\ UNCHANGED <<loggerVars, callVars, rssVars, mainVars, variant, rssLinks, avatarMapper, world, ctxDone, next, sem, wg, closerpc, pc,
                   tries, lastErr, ret, log, waits, resultChan, chanClosed, results,
                   problems, successCount, newArticles>>

\* the collection loop ends on the closed, drained channel: fetchAllFeeds returns
Return ==
    /\ variant = "feeds" /\ mainpc = "collect" /\ resultChan = <<>> /\ chanClosed > 0
    /\ mainpc' = "returned"
    /\ UNCHANGED <<loggerVars, callVars, rssVars, mainVars, variant, rssLinks, avatarMapper, world, ctxDone, next, sem, wg, closerpc, pc,
                   tries, lastErr, ret, log, waits, resultChan, chanClosed, results,
                   problems, successCount, newArticles>>

\* main: count and extract the successes, sort them by time, newest first
SortArticles ==
    /\ variant = "feeds" /\ mainpc = "returned"
    /\ successCount' = Len(itemsWithTime(results))
    /\ \E sorted \in sortSlice(itemsWithTime(results)) :
          newArticles' = [k \in 1..Len(sorted) |-> sorted[k].article]
    /\ mainpc' = "sorted"
    /\ UNCHANGED <<loggerVars, callVars, rssVars, mainVars, variant, rssLinks, avatarMapper, world, ctxDone, next, sem, wg, closerpc, pc,
                   tries, lastErr, ret, log, waits, resultChan, chanClosed, results,
                   problems>>

\* ------------------------------------------------ main: compare and persist
\* a key that carries the published string as well
articleToKeyWithDate(a) ==
    <<"Blog:">> \o a.BlogName \o <<"|Title:">> \o a.Title \o <<"|Link:">> \o a.Link
        \o <<"|Published:">> \o a.Published

\* articleToKey(a): fmt.Sprintf("Blog:%s|Title:%s|Link:%s", BlogName, Title, Link)
articleToKey(a) ==
    <<"Blog:">> \o a.BlogName \o <<"|Title:">> \o a.Title \o <<"|Link:">> \o a.Link

\* a comparison of the lengths and of the sets of keys, blind to the counts
sameKeySets(articles1, articles2) ==
    /\ Len(articles1) = Len(articles2)
    /\ {articleToKey(articles1[k]) : k \in DOMAIN articles1}
          = {articleToKey(articles2[k]) : k \in DOMAIN articles2}

\* areArticlesIdentical(articles1, articles2): equal lengths, then the maps
\* key -> count of both, equal sizes, and every count of map1 found in map2
areArticlesIdentical(articles1, articles2) ==
    LET count(as, key) == Cardinality({k \in DOMAIN as : articleToKey(as[k]) = key})
        keys1 == {articleToKey(articles1[k]) : k \in DOMAIN articles1}
        keys2 == {articleToKey(articles2[k]) : k \in DOMAIN articles2}
        map1 == [key \in keys1 |-> count(articles1, key)]
        map2 == [key \in keys2 |-> count(articles2, key)]
    IN  IF Len(articles1) # Len(articles2) THEN FALSE
        ELSE IF Cardinality(DOMAIN map1) # Cardinality(DOMAIN map2) THEN FALSE
        ELSE \A key \in DOMAIN map1 : key \in DOMAIN map2 /\ map1[key] = map2[key]

\* encoding/json, writing a string: <, >, &, the quote and the backslash
\* become escapes
jsonEscape(str) ==
    [k \in DOMAIN str |->
        IF str[k] = "&" THEN "\\u0026"
        ELSE IF str[k] = "<" THEN "\\u003c"
        ELSE IF str[k] = ">" THEN "\\u003e"
        ELSE IF str[k] = "\"" THEN "\\\""
        ELSE IF str[k] = "\\" THEN "\\\\"
        ELSE str[k]]

\* a reader of string literals that leaves the escapes as they are
jsonKeep(lit) == lit

\* encoding/json, reading a string literal: the escapes become characters
jsonUnescape(lit) ==
    [k \in DOMAIN lit |->
        IF lit[k] = "\\u0026" THEN "&"
        ELSE IF lit[k] = "\\u003c" THEN "<"
        ELSE IF lit[k] = "\\u003e" THEN ">"
        ELSE IF lit[k] = "\\\"" THEN "\""
        ELSE IF lit[k] = "\\\\" THEN "\\"
        ELSE lit[k]]

\* file contents: no bytes at all, and bytes that are no JSON document
EmptyText == [kind |-> "empty"]
Garbage == [kind |-> "garbage"]

\* json.MarshalIndent(allData): the document of an AllData, its members named
\* by the json tags of Article and AllData
MarshalIndent(allData) ==
    [kind |-> "json",
     tree |-> [items |-> [k \in DOMAIN allData.Items |->
                             [blog_name |-> jsonEscape(allData.Items[k].BlogName),
                              title |-> jsonEscape(allData.Items[k].Title),
                              published |-> jsonEscape(allData.Items[k].Published),
                              link |-> jsonEscape(allData.Items[k].Link),
                              avatar |-> jsonEscape(allData.Items[k].Avatar)]],
               updated |-> jsonEscape(allData.Updated)]]

\* json.Unmarshal(rawData, &existingAllData)
Unmarshal(rawData) ==
    IF rawData.kind # "json"
    THEN [val |-> Nil, err |-> Err(<<"unexpected end of JSON input">>, Nil)]
    ELSE [val |-> [Items |-> [k \in DOMAIN rawData.tree.items |->
                                 [BlogName |-> jsonUnescape(rawData.tree.items[k].blog_name),
                                  Title |-> jsonUnescape(rawData.tree.items[k].title),
                                  Published |-> jsonUnescape(rawData.tree.items[k].published),
                                  Link |-> jsonUnescape(rawData.tree.items[k].link),
                                  Avatar |-> jsonUnescape(rawData.tree.items[k].avatar)]],
                   Updated |-> jsonUnescape(rawData.tree.updated)],
          err |-> Nil]

\* base64.StdEncoding.EncodeToString, as the contents API answers, and decodeBase64
encodeBase64(text) == [b64 |-> text]
decodeBase64(b64str) == [val |-> b64str.b64, err |-> Nil]

\* a read of the file that takes "not found" for a failure like any other status
getGitHubFileContentStrict(ans) ==
    IF ans.neterr THEN [content |-> EmptyText, err |-> Err(<<"Get: dial tcp: timeout">>, Nil)]
    ELSE IF ans.status # 200
    THEN [content |-> EmptyText,
          err |-> Err(<<"failed to get file, status:", ToString(ans.status)>>, Nil)]
    ELSE [content |-> decodeBase64(encodeBase64(ans.file)).val, err |-> Nil]

\* getGitHubFileContent(ctx, token, owner, repo, path): (content, err), the
\* SHA left out
getGitHubFileContent(ans) ==
    IF ans.neterr THEN [content |-> EmptyText, err |-> Err(<<"Get: dial tcp: timeout">>, Nil)]
    ELSE IF ans.status = 404 THEN [content |-> EmptyText, err |-> Nil]
    ELSE IF ans.status # 200
    THEN [content |-> EmptyText,
          err |-> Err(<<"failed to get file, status:", ToString(ans.status)>>, Nil)]
    ELSE [content |-> decodeBase64(encodeBase64(ans.file)).val, err |-> Nil]

\* getCosFileContent(ctx, dataURL): (data, err), data nil when not found
getCosFileContent(ans) ==
    IF ans.neterr
    THEN [data |-> Nil, err |-> wrapErrorf(Err(<<"Get: dial tcp: timeout">>, Nil), <<"COS GET failed">>)]
    ELSE IF ans.status = 404 THEN [data |-> Nil, err |-> Nil]
    ELSE IF ans.status # 200
    THEN [data |-> Nil,
          err |-> wrapErrorf(Err(<<"status:", ToString(ans.status)>>, Nil), <<"COS GET failed">>)]
    ELSE [data |-> ans.file, err |-> Nil]

\* getExistingData(ctx, cfg): (articles, err) for what the save target answered
getExistingData(ans) ==
    LET gh == getGitHubFileContent(ans)
        cos == getCosFileContent(ans)
        parse(rawData) ==
            IF Unmarshal(rawData).err # Nil THEN [articles |-> <<>>, err |-> Nil]
            ELSE [articles |-> Unmarshal(rawData).val.Items, err |-> Nil]
    IN  IF ans.target = "GITHUB"
        THEN IF gh.err # Nil
             THEN [articles |-> <<>>, err |-> wrapErrorf(gh.err, <<"get old data.json from GitHub failed">>)]
             ELSE IF gh.content = EmptyText THEN [articles |-> <<>>, err |-> Nil]
             ELSE parse(gh.content)
        ELSE IF ans.target = "COS"
        THEN IF cos.err # Nil
             THEN [articles |-> <<>>, err |-> wrapErrorf(cos.err, <<"get old data.json from COS failed">>)]
             ELSE IF cos.data = Nil THEN [articles |-> <<>>, err |-> Nil]
             ELSE parse(cos.data)
        ELSE [articles |-> <<>>, err |-> Err(<<"SAVE_TARGET invalid">>, Nil)]

\* a main that never takes the new collection for the old one
neverSkips(err, new, old) == FALSE

\* a test that also ends the run when the stored data could not be read
skipsOnReadError(err, new, old) == err # Nil \/ areArticlesIdentical(new, old)

\* main: "if err == nil && areArticlesIdentical(newArticles, existingArticles)"
skipsUpload(err, new, old) == err = Nil /\ areArticlesIdentical(new, old)

\* cfg.SaveTarget after LoadConfig and Validate
SaveTargets == {"GITHUB", "COS"}

\* an article as an earlier run may have persisted it: the published string of
\* another day, the avatar of that day
persistedEarlier(a) ==
    [a EXCEPT !.Published = <<"day", "earlier">>,
              !.Avatar = <<"https://", "cdn", "/", "old.png">>]

\* collections the save target may hold when a run over the articles new reads
\* it: none; new in any order, as it is or with other published strings and
\* avatars; new with one article in place of another; new without its first
\* article; new with another title in its first article
PriorCollections(new) ==
    LET n == Len(new)
        perms == {p \in [1..n -> 1..n] : \A a, b \in 1..n : a # b => p[a] # p[b]}
    IN  {<<>>}
        \cup {[k \in 1..n |-> new[p[k]]] : p \in perms}
        \cup {[k \in 1..n |-> persistedEarlier(new[p[k]])] : p \in perms}
        \cup {[new EXCEPT ![i] = new[j]] : i, j \in 1..n}
        \cup (IF n = 0 THEN {}
              ELSE {Tail(new), [new EXCEPT ![1].Title = <<"Earlier">> \o @]})

\* what a save target can answer to the read of data.json: no connection, not
\* found, a server error, no bytes, bytes that are no JSON, a persisted collection
StoreAnswers(new) ==
    {[target |-> tg, neterr |-> TRUE, status |-> 0, file |-> EmptyText] : tg \in SaveTargets}
    \cup {[target |-> tg, neterr |-> FALSE, status |-> st, file |-> EmptyText] :
             tg \in SaveTargets, st \in {404, 500, 200}}
    \cup {[target |-> tg, neterr |-> FALSE, status |-> 200, file |-> Garbage] : tg \in SaveTargets}
    \cup {[target |-> tg, neterr |-> FALSE, status |-> 200,
           file |-> MarshalIndent([Items |-> c, Updated |-> <<"updated", "before">>])] :
             tg \in SaveTargets, c \in PriorCollections(new)}

\* main: getExistingData, and the log entry when it failed
GetExistingData ==
    /\ variant = "feeds" /\ mainpc = "sorted"
    /\ \E ans \in StoreAnswers(newArticles) :
          /\ store' = ans
          /\ existingArticles' = getExistingData(ans).articles
          /\ existingErr' = getExistingData(ans).err
          /\ appLog' = IF getExistingData(ans).err # Nil
                       THEN Append(appLog, <<"[ERROR]", "existing data">>)
                       ELSE appLog
    /\ mainpc' = "compare"
    /\ UNCHANGED <<loggerVars, callVars, rssVars, variant, rssLinks, avatarMapper, world, ctxDone, next, sem, wg,
                   closerpc, pc, tries, lastErr, ret, log, waits, resultChan, chanClosed,
                   results, problems, successCount, newArticles, identical, uploads>>

\* main: the comparison; identical collections end the run with a log entry
Compare ==
    /\ variant = "feeds" /\ mainpc = "compare"
    /\ identical' = IF existingErr = Nil
                    THEN Ptr(areArticlesIdentical(newArticles, existingArticles))
                    ELSE Nil
    /\ IF skipsUpload(existingErr, newArticles, existingArticles)
       THEN /\ appLog' = Append(appLog, <<"no update needed">>)
            /\ mainpc' = "done"
       ELSE /\ appLog' = appLog
            /\ mainpc' = "upload"
    /\ UNCHANGED <<loggerVars, callVars, rssVars, variant, rssLinks, avatarMapper, world, ctxDone, next, sem, wg,
                   closerpc, pc, tries, lastErr, ret, log, waits, resultChan, chanClosed,
                   results, problems, successCount, newArticles, store, existingArticles,
                   existingErr, uploads>>

\* main: build AllData, marshal it, upload it to the save target; the summary
\* is logged after a successful upload, an error after a failed one
Upload ==
    /\ variant = "feeds" /\ mainpc = "upload"
    /\ \E now \in world.clock, ok \in BOOLEAN :
          LET jsonBytes == MarshalIndent([Items |-> newArticles,
                                          Updated |-> <<"updated", ToString(now)>>])
          IN  /\ uploads' = Append(uploads, [target |-> store.target, data |-> jsonBytes])
              /\ appLog' = IF ok THEN Append(appLog, <<"summary", ToString(successCount)>>)
                           ELSE Append(appLog, <<"[ERROR]", "upload">>)
    /\ mainpc' = "done"
    /\ UNCHANGED <<loggerVars, callVars, rssVars, variant, rssLinks, avatarMapper, world, ctxDone, next, sem, wg,
                   closerpc, pc, tries, lastErr, ret, log, waits, resultChan, chanClosed,
                   results, problems, successCount, newArticles, store, existingArticles,
                   existingErr, identical>>

\* areArticlesIdentical called on its own, on two collections
CallIdentical ==
    /\ variant \in {"compare", "keys"} /\ mainpc = "compare"
    /\ identical' = Ptr(areArticlesIdentical(newArticles, existingArticles))
    /\ mainpc' = "compared"
    /\ UNCHANGED <<loggerVars, callVars, rssVars, variant, rssLinks, avatarMapper, world, ctxDone, next, sem, wg,
                   closerpc, pc, tries, lastErr, ret, log, waits, resultChan, chanClosed,
                   results, problems, successCount, newArticles, store, existingArticles,
                   existingErr, uploads, appLog>>

\* --------------------------------------------- fetchAllRSS and processFeed
\* CleanXMLContent(content): delete what [\x00-\x1F\x7F-\x9F] matches in the
\* string: the characters U+0000..U+001F and U+007F, one byte each, and
\* U+0080..U+009F, in UTF-8 the byte 0xC2 and a byte 0x80..0x9F; a byte that
\* is part of no character is matched by nothing and stays
CleanXMLContent(content) ==
    LET n == Len(content)
        G[i \in 1..(n + 2)] ==
            IF i > n THEN <<>>
            ELSE IF content[i] <= 31 \/ content[i] = 127 THEN G[i + 1]
            ELSE IF content[i] = 194 /\ i < n /\ content[i + 1] >= 128 /\ content[i + 1] <= 159
            THEN G[i + 2]
            ELSE <<content[i]>> \o G[i + 1]
    IN  G[1]

\* processFeed: the closure of the first WithRetry: GET, status check, clean
httpGetBody(link, resp) ==
    IF resp.neterr \/ resp.badcert
    THEN [val |-> Nil, err |-> Err(<<"HTTP request failed:", "Get">> \o link, Nil)]
    ELSE IF resp.status # 200
    THEN [val |-> Nil, err |-> Err(<<"status not 200 (">> \o link \o <<"):", ToString(resp.status)>>, Nil)]
    ELSE [val |-> Body(CleanXMLContent(resp.body.bytes), resp.body.doc), err |-> Nil]

\* processFeed: the closure of the second WithRetry: p.parser.ParseString(body)
parseBody(body) ==
    LET r == ParseString(body) IN [val |-> r.feed, err |-> r.err]

\* WithRetry: the loop condition "i <= maxRetries"
LoopGoesOn(i) == i <= MaxRetries

\* WithRetry: what the ctx.Done() case returns
cancelled(last) == Err(<<"cancelled or timed out">>, Nil)

\* WithRetry: what it returns after the loop
exhausted(last) == Err(<<"exceeded max retries:">> \o last.text, last)

\* timeFormats of package utils, in order
timeFormats == <<"RFC3339", "RFC3339Nano", "RFC1123Z", "RFC1123">>

\* utils.ParseTime(timeStr)
ParseTime(timeStr) ==
    IF /\ Len(timeStr) = 2
       /\ \E k \in DOMAIN timeFormats : timeFormats[k] = timeStr[1]
       /\ \E t \in Times : ToString(t) = timeStr[2]
    THEN [t |-> CHOOSE t \in Times : ToString(t) = timeStr[2], err |-> Nil]
    ELSE [t |-> 0, err |-> Err(<<"cannot parse time:">> \o timeStr, Nil)]

\* utils.FormatTime(t): "January 2, 2006", the calendar day
FormatTime(t) == <<"date", ToString(t \div 2)>>

\* RSSProcessor.extractDomain(rawURL): scheme://host
rssExtractDomain(rawURL) ==
    IF Len(rawURL) >= 2 THEN <<rawURL[1], rawURL[2]>> ELSE <<"https://">>

\* RSSProcessor.mapNameIfNeeded(longName): the short name if one is mapped
mapNameIfNeeded(am, longName) ==
    IF \E h \in DOMAIN am.nameMap : <<h>> = longName
    THEN am.nameMap[CHOOSE h \in DOMAIN am.nameMap : <<h>> = longName]
    ELSE longName

\* processFeed after the two WithRetry calls: (article, error) and the counters
processFeedResult(link, parsed, am, stats) ==
    LET domain == rssExtractDomain(parsed.Link)
        host == IF Len(domain) >= 2 THEN domain[2] ELSE ""
        mapped == IF host \in DOMAIN am.avatarMap THEN am.avatarMap[host] ELSE <<>>
        avatarURL == IF mapped = <<>> THEN DefaultAvatar ELSE mapped
        st1 == IF mapped = <<>>
               THEN [stats EXCEPT !.MissingAvatarCount = @ + 1, !.UsedDefaultCount = @ + 1]
               ELSE stats
        item == parsed.Items[1]
        p1 == ParseTime(item.Published)
        p2 == IF p1.err # Nil /\ item.Updated # <<>> THEN ParseTime(item.Updated) ELSE p1
        name == mapNameIfNeeded(am, parsed.Title)
    IN  IF Len(parsed.Items) = 0
        THEN [art |-> Nil, err |-> Err(<<"no articles (">> \o link \o <<")">>, Nil), stats |-> st1]
        ELSE IF p2.err # Nil
        THEN [art |-> Nil, err |-> Err(<<"time parse failed (">> \o link \o <<")">>, Nil),
              stats |-> [st1 EXCEPT !.ParseFailCount = @ + 1]]
        ELSE [art |-> [DomainName |-> domain, Name |-> name, Title |-> item.Title,
                       Link |-> item.Link, Date |-> FormatTime(p2.t), Avatar |-> avatarURL],
              t |-> p2.t, err |-> Nil, stats |-> st1]

\* the overall deadline of cmd/main.go (context.WithTimeout, 3 minutes) passes
CtxExpire ==
    /\ variant = "rss" /\ ~ctxDone /\ mainpc \notin {"returned", "sorted"}
    /\ ctxDone' = TRUE
    /\ UNCHANGED <<loggerVars, callVars, feedsVars, rssVars, variant, rssLinks, avatarMapper, world, mainpc, next,
                   wg, pc, tries, lastErr, ret, log, waits>>

\* fetchAllRSS: start the MaxConcurrency workers (wg.Add(1) and go, each)
StartWorkers ==
    /\ variant = "rss" /\ mainpc = "dispatch"
    /\ wg' = MaxConcurrency
    /\ wpc' = [w \in Workers |-> "recv"]
    /\ mainpc' = "distribute"
    /\ UNCHANGED <<loggerVars, callVars, feedsVars, variant, rssLinks, avatarMapper, world, ctxDone, next, pc,
                   tries, lastErr, ret, log, waits, taskCh, taskClosed, cur, delay,
                   articles, errs, globalStats>>

\* fetchAllRSS: taskCh <- f (a send blocks while the buffer is full)
Distribute ==
    /\ variant = "rss" /\ mainpc = "distribute" /\ next <= Len(rssLinks)
    /\ Len(taskCh) < Len(rssLinks)
    /\ taskCh' = Append(taskCh, next)
    /\ next' = next + 1
    /\ UNCHANGED <<loggerVars, callVars, feedsVars, variant, rssLinks, avatarMapper, world, ctxDone, mainpc, wg,
                   pc, tries, lastErr, ret, log, waits, taskClosed, wpc, cur, delay,
                   articles, errs, globalStats>>

\* fetchAllRSS: close(taskCh), then wg.Wait()
CloseTasks ==
    /\ variant = "rss" /\ mainpc = "distribute" /\ next > Len(rssLinks)
    /\ taskClosed' = TRUE
    /\ mainpc' = "wait"
    /\ UNCHANGED <<loggerVars, callVars, feedsVars, variant, rssLinks, avatarMapper, world, ctxDone, next, wg, pc,
                   tries, lastErr, ret, log, waits, taskCh, wpc, cur, delay, articles,
                   errs, globalStats>>

\* fetchAllRSS: wg.Wait() has returned, return articles, errs
ReturnRSS ==
    /\ variant = "rss" /\ mainpc = "wait" /\ wgWait
    /\ mainpc' = "returned"
    /\ UNCHANGED <<loggerVars, callVars, feedsVars, rssVars, variant, rssLinks, avatarMapper, world, ctxDone, next,
                   wg, pc, tries, lastErr, ret, log, waits>>

\* time.Parse("January 2, 2006", date) for a date that FormatTime wrote: the day
parseDate(date) ==
    IF Len(date) = 2 /\ date[1] = "date" /\ \E d \in Times : ToString(d) = date[2]
    THEN CHOOSE d \in Times : ToString(d) = date[2]
    ELSE 0

\* RSSProcessor.Run after fetchAllRSS: append p.foreverData (empty in the runs
\* explored) and sort.Slice(articles, less = the parsed Date of i is after the
\* parsed Date of j)
RunSort ==
    /\ variant = "rss" /\ mainpc = "returned"
    /\ \E sorted \in sortSlice([k \in DOMAIN articles |->
                                 [article |-> articles[k], t |-> parseDate(articles[k].art.Date)]]) :
          articles' = [k \in DOMAIN sorted |-> sorted[k].article]
    /\ mainpc' = "sorted"
    /\ UNCHANGED <<loggerVars, callVars, feedsVars, variant, rssLinks, avatarMapper, world, ctxDone, next,
                   wg, pc, tries, lastErr, ret, log, waits, taskCh, taskClosed, wpc, cur,
                   delay, errs, globalStats>>

\* a worker receives a feed from taskCh and enters processFeed: the first
\* WithRetry starts with i = 1 and delay = baseInterval
WorkerRecv(w) ==
    /\ variant = "rss" /\ wpc[w] = "recv" /\ taskCh # <<>>
    /\ LET f == Head(taskCh)
       IN  /\ cur' = [cur EXCEPT ![w] = f]
           /\ pc' = [pc EXCEPT ![f] = "get"]
           /\ tries' = [tries EXCEPT ![f] = 1]
           /\ delay' = [delay EXCEPT ![f] = RetryInterval]
    /\ taskCh' = Tail(taskCh)
    /\ wpc' = [wpc EXCEPT ![w] = "busy"]
    /\ UNCHANGED <<loggerVars, callVars, feedsVars, variant, rssLinks, avatarMapper, world, ctxDone, mainpc, next,
                   wg, lastErr, ret, log, waits, taskClosed, articles, errs, globalStats>>

\* a worker finds taskCh closed and drained: its loop ends, deferred wg.Done()
WorkerExit(w) ==
    /\ variant = "rss" /\ wpc[w] = "recv" /\ taskCh = <<>> /\ taskClosed
    /\ wg' = wg - 1
    /\ wpc' = [wpc EXCEPT ![w] = "exit"]
    /\ UNCHANGED <<loggerVars, callVars, feedsVars, variant, rssLinks, avatarMapper, world, ctxDone, mainpc, next,
                   pc, tries, lastErr, ret, log, waits, taskCh, taskClosed, cur, delay,
                   articles, errs, globalStats>>

\* WithRetry: result, lastErr = fn(); return on success, else go to the select
WithRetryAttempt(w) ==
    /\ variant = "rss" /\ wpc[w] = "busy" /\ pc[cur[w]] \in {"get", "parse"}
    /\ LET f == cur[w]
           phase == pc[f]
       IN  \E resp \in world.feeds[f] :
              LET r == IF phase = "get" THEN httpGetBody(rssLinks[f], resp)
                       ELSE parseBody(ret[f].val)
              IN  /\ log' = [log EXCEPT ![f] = Append(@, [path |-> phase, ok |-> r.err = Nil])]
                  /\ IF r.err = Nil
                     THEN /\ ret' = [ret EXCEPT ![f] = [val |-> r.val, err |-> Nil]]
                          /\ lastErr' = [lastErr EXCEPT ![f] = Nil]
                          /\ pc' = [pc EXCEPT ![f] = IF phase = "get" THEN "getret" ELSE "parseret"]
                     ELSE /\ lastErr' = [lastErr EXCEPT ![f] = [r.err EXCEPT !.attempt = tries[f]]]
                          /\ pc' = [pc EXCEPT ![f] = IF phase = "get" THEN "getwait" ELSE "parsewait"]
                          /\ UNCHANGED ret
    /\ UNCHANGED <<loggerVars, callVars, feedsVars, variant, rssLinks, avatarMapper, world, ctxDone, mainpc, next,
                   wg, tries, waits, taskCh, taskClosed, wpc, cur, delay, articles, errs,
                   globalStats>>

\* WithRetry: the case <-time.After(delay) of the select, then delay *= 2 and
\* i++; past the last pass the loop ends and the wrapped lastErr is returned
WithRetryWait(w) ==
    /\ variant = "rss" /\ wpc[w] = "busy" /\ pc[cur[w]] \in {"getwait", "parsewait"}
    /\ LET f == cur[w]
           phase == IF pc[f] = "getwait" THEN "get" ELSE "parse"
       IN  /\ waits' = [waits EXCEPT ![f] = Append(@, delay[f])]
           /\ delay' = [delay EXCEPT ![f] = @ * 2]
           /\ tries' = [tries EXCEPT ![f] = @ + 1]
           /\ IF LoopGoesOn(tries[f] + 1)
              THEN /\ pc' = [pc EXCEPT ![f] = phase]
                   /\ UNCHANGED <<ret, lastErr>>
              ELSE /\ pc' = [pc EXCEPT ![f] = IF phase = "get" THEN "getret" ELSE "parseret"]
                   /\ ret' = [ret EXCEPT ![f] = [val |-> Nil, err |-> exhausted(lastErr[f])]]
                   /\ lastErr' = [lastErr EXCEPT ![f] = Nil]
    /\ UNCHANGED <<loggerVars, callVars, feedsVars, variant, rssLinks, avatarMapper, world, ctxDone, mainpc, next,
                   wg, log, taskCh, taskClosed, wpc, cur, articles, errs, globalStats>>

\* WithRetry: the case <-ctx.Done() of the select; ctx is the per-feed context
\* (15 seconds, child of the run's context), which may be done at any select
WithRetryCancel(w) ==
    /\ variant = "rss" /\ wpc[w] = "busy" /\ pc[cur[w]] \in {"getwait", "parsewait"}
    /\ LET f == cur[w]
       IN  /\ pc' = [pc EXCEPT ![f] = IF pc[f] = "getwait" THEN "getret" ELSE "parseret"]
           /\ ret' = [ret EXCEPT ![f] = [val |-> Nil, err |-> cancelled(lastErr[f])]]
           /\ lastErr' = [lastErr EXCEPT ![f] = Nil]
    /\ UNCHANGED <<loggerVars, callVars, feedsVars, variant, rssLinks, avatarMapper, world, ctxDone, mainpc, next,
                   wg, tries, log, waits, taskCh, taskClosed, wpc, cur, delay, articles,
                   errs, globalStats>>

\* the worker's bookkeeping for a feed that processFeed failed with error e
recordError(w, e, stats) ==
    /\ errs' = Append(errs, [feed |-> cur[w], err |-> e])
    /\ globalStats' = [stats EXCEPT !.FailCount = @ + 1]
    /\ UNCHANGED articles

\* the worker is done with its feed: the locals of processFeed are dead
nextFeed(w) ==
    /\ pc' = [pc EXCEPT ![cur[w]] = "done"]
    /\ tries' = [tries EXCEPT ![cur[w]] = 0]
    /\ delay' = [delay EXCEPT ![cur[w]] = 0]
    /\ ret' = [ret EXCEPT ![cur[w]] = Nil]
    /\ log' = [log EXCEPT ![cur[w]] = <<>>]
    /\ waits' = [waits EXCEPT ![cur[w]] = <<>>]
    /\ wpc' = [wpc EXCEPT ![w] = "recv"]
    /\ cur' = [cur EXCEPT ![w] = 0]

\* processFeed after the first WithRetry: on error return it (the worker
\* records it under the mutex), else start the second WithRetry
processFeedFetched(w) ==
    /\ variant = "rss" /\ wpc[w] = "busy" /\ pc[cur[w]] = "getret"
    /\ LET f == cur[w]
       IN  IF ret[f].err # Nil
           THEN /\ recordError(w, Err(<<"fetch failed (">> \o rssLinks[f] \o <<"):">> \o ret[f].err.text,
                                      ret[f].err), globalStats)
                /\ nextFeed(w)
           ELSE /\ pc' = [pc EXCEPT ![f] = "parse"]
                /\ tries' = [tries EXCEPT ![f] = 1]
                /\ delay' = [delay EXCEPT ![f] = RetryInterval]
                /\ log' = [log EXCEPT ![f] = <<>>]
                /\ waits' = [waits EXCEPT ![f] = <<>>]
                /\ UNCHANGED <<ret, wpc, cur, articles, errs, globalStats>>
    /\ UNCHANGED <<loggerVars, callVars, feedsVars, variant, rssLinks, avatarMapper, world, ctxDone, mainpc, next,
                   wg, lastErr, taskCh, taskClosed>>

\* processFeed after the second WithRetry up to its return, and the worker's
\* bookkeeping under the mutex
processFeedParsed(w) ==
    /\ variant = "rss" /\ wpc[w] = "busy" /\ pc[cur[w]] = "parseret"
    /\ LET f == cur[w]
       IN  IF ret[f].err # Nil
           THEN recordError(w, Err(<<"parse failed (">> \o rssLinks[f] \o <<"):">> \o ret[f].err.text,
                                   ret[f].err),
                            [globalStats EXCEPT !.ParseFailCount = @ + 1])
           ELSE LET r == processFeedResult(rssLinks[f], ret[f].val, avatarMapper, globalStats)
                IN  IF r.err # Nil
                    THEN recordError(w, r.err, r.stats)
                    ELSE /\ articles' = Append(articles, [feed |-> f, art |-> r.art, t |-> r.t])
                         /\ globalStats' = [r.stats EXCEPT !.SuccessCount = @ + 1]
                         /\ UNCHANGED errs
    /\ nextFeed(w)
    /\ UNCHANGED <<loggerVars, callVars, feedsVars, variant, rssLinks, avatarMapper, world, ctxDone, mainpc, next,
                   wg, lastErr, taskCh, taskClosed>>

\* ------------------------------------------------------------ specification
NoProblems == [parseFails |-> <<>>, feedEmpties |-> <<>>, noAvatar |-> <<>>,
               brokenAvatar |-> <<>>]

\* the world of a run with several feeds: per feed the three answers of
\* Responses, a reachable avatar, the clock at its latest tick
SmallWorld ==
    [feeds |-> [f \in Feeds |-> Responses(f)],
     homes |-> {[neterr |-> TRUE, status |-> 0, doc |-> <<>>]},
     heads |-> {[neterr |-> FALSE, status |-> 200]},
     clock |-> {MaxTime},
     defaultAvatar |-> DefaultAvatar]

\* the world of a run with a single feed: every answer
WideWorld ==
    [feeds |-> [f \in Feeds |-> AllResponses(f)],
     homes |-> HomePages,
     heads |-> HeadResponses,
     clock |-> Times,
     defaultAvatar |-> DefaultAvatar]

\* the world of a run with a single feed and DEFAULT_AVATAR not set
BareWorld == [WideWorld EXCEPT !.defaultAvatar = NoDefaultAvatar]

\* the world of the three-feed run in which the server of feed 1 always
\* answers a feed with an embedded image, the server of feed 2 always answers
\* 500, and the server of every later feed always answers a feed without items
ScenarioWorld ==
    [feeds |-> [f \in Feeds |->
                  IF f = 1
                  THEN {[neterr |-> FALSE, badcert |-> FALSE, status |-> 200,
                         body |-> Body(<<60>>, DocFull(1, MaxTime))]}
                  ELSE IF f = 2
                  THEN {[neterr |-> FALSE, badcert |-> FALSE, status |-> 500,
                         body |-> Body(<<>>, Nil)]}
                  ELSE {[neterr |-> FALSE, badcert |-> FALSE, status |-> 200,
                         body |-> Body(<<60>>, DocEmpty(f))]}],
     homes |-> {[neterr |-> TRUE, status |-> 0, doc |-> <<>>]},
     heads |-> {[neterr |-> FALSE, status |-> 200]},
     clock |-> {MaxTime},
     defaultAvatar |-> DefaultAvatar]

\* the avatar mapper with an entry for the host of feed 1
Host1Mapper ==
    [avatarMap |-> [h \in {"host1"} |-> <<"https://", "cdn", "/", "mapped.png">>],
     nameMap |-> [h \in {"host1"} |-> <<"ShortName">>]]

\* the runs explored: plain links and an empty mapper; a link that carries the
\* text 解析RSS失败 and a mapper with an entry; a single link in the wide world,
\* without and with a mapper entry for its host, and without DEFAULT_AVATAR
Inputs ==
    {[rssLinks |-> [f \in Feeds |-> LinkOf(f, FALSE)],
      avatarMapper |-> [avatarMap |-> <<>>, nameMap |-> <<>>],
      world |-> SmallWorld],
     [rssLinks |-> [f \in Feeds |-> LinkOf(f, f = NumFeeds)],
      avatarMapper |-> Host1Mapper,
      world |-> SmallWorld],
     [rssLinks |-> <<LinkOf(1, FALSE)>>,
      avatarMapper |-> [avatarMap |-> <<>>, nameMap |-> <<>>],
      world |-> WideWorld],
     [rssLinks |-> <<LinkOf(1, FALSE)>>,
      avatarMapper |-> Host1Mapper,
      world |-> WideWorld],
     [rssLinks |-> <<LinkOf(1, FALSE)>>,
      avatarMapper |-> [avatarMap |-> <<>>, nameMap |-> <<>>],
      world |-> BareWorld],
     [rssLinks |-> [f \in Feeds |-> LinkOf(f, FALSE)],
      avatarMapper |-> [avatarMap |-> <<>>, nameMap |-> <<>>],
      world |-> ScenarioWorld]}

NoStats == [SuccessCount |-> 0, FailCount |-> 0, ParseFailCount |-> 0,
            MissingAvatarCount |-> 0, UsedDefaultCount |-> 0]

\* the two log channels and the two log files
LogKinds == {"error", "summary"}

\* package logging after init(): both channels empty and open, both files of
\* the day open, both workers waiting on their channel, CloseLogger not called
LoggerStarted ==
    /\ logChan = [k \in LogKinds |-> [buf |-> <<>>, closed |-> FALSE]]
    /\ logFile = [k \in LogKinds |-> [open |-> TRUE, lines |-> <<>>]]
    /\ logWorker = [k \in LogKinds |-> [at |-> "recv", msg |-> <<>>]]
    /\ closepc = "none"
    /\ closeCalls = 0
    /\ handed = [k \in LogKinds |-> <<>>]
    /\ panicMsg = ""

\* nothing has run: no task, no result, nothing read from the save target
Idle ==
    /\ ctxDone = FALSE
    /\ next = 1
    /\ sem = 0
    /\ wg = 0
    /\ closerpc = "none"
    /\ pc = [f \in Feeds |-> "idle"]
    /\ tries = [f \in Feeds |-> 0]
    /\ lastErr = [f \in Feeds |-> Nil]
    /\ ret = [f \in Feeds |-> Nil]
    /\ log = [f \in Feeds |-> <<>>]
    /\ waits = [f \in Feeds |-> <<>>]
    /\ resultChan = <<>>
    /\ chanClosed = 0
    /\ results = <<>>
    /\ problems = NoProblems
    /\ successCount = 0
    /\ store = Nil
    /\ existingErr = Nil
    /\ out = Nil
    /\ identical = Nil
    /\ uploads = <<>>
    /\ appLog = <<>>
    /\ taskCh = <<>>
    /\ taskClosed = FALSE
    /\ wpc = [w \in Workers |-> "none"]
    /\ cur = [w \in Workers |-> 0]
    /\ delay = [f \in Feeds |-> 0]
    /\ articles = <<>>
    /\ errs = <<>>
    /\ globalStats = NoStats
    /\ LoggerStarted

\* the start of a run of either pipeline
Init ==
    /\ variant \in {"feeds", "rss"}
    /\ \E in \in Inputs :
          rssLinks = in.rssLinks /\ avatarMapper = in.avatarMapper /\ world = in.world
    /\ mainpc = "dispatch"
    /\ newArticles = <<>>
    /\ existingArticles = <<>>
    /\ arg = <<>>
    /\ Idle

\* the longest collection handed to areArticlesIdentical on its own
MaxArticles == 3

\* the articles of those collections: one article, the same article with
\* another published string and avatar, an article of another blog, and that
\* blog's next article under the same link
SomeArticles ==
    LET a == [BlogName |-> <<"Blog", "1">>, Title |-> <<"Q", "&", "A">>,
              Link |-> <<"link-new", "1">>, Published |-> FormatDay(0),
              Avatar |-> DefaultAvatar]
        b == [BlogName |-> <<"Blog", "2">>, Title |-> <<"New", "2">>,
              Link |-> <<"link-new", "2">>, Published |-> FormatDay(0),
              Avatar |-> DefaultAvatar]
    IN  {a, [a EXCEPT !.Published = FormatDay(2), !.Avatar = <<>>],
         b, [b EXCEPT !.Title = <<"Newer", "2">>]}

\* the collections of at most MaxArticles of these articles
Collections == UNION {[1..n -> SomeArticles] : n \in 0..MaxArticles}

\* the start of a call of areArticlesIdentical on two collections
InitCompare ==
    /\ variant = "compare"
    /\ rssLinks = <<>> /\ avatarMapper = [avatarMap |-> <<>>, nameMap |-> <<>>]
    /\ world = SmallWorld
    /\ mainpc = "compare"
    /\ newArticles \in Collections
    /\ existingArticles \in Collections
    /\ arg = <<>>
    /\ Idle

\* articles whose fields contain the separator texts of articleToKey: two
\* that split "a|Title:b|Title:c" differently between blog name and title, two
\* that split "t|Link:u|Link:v" differently between title and link
SeparatorArticles ==
    LET a == [BlogName |-> <<"a">>, Title |-> <<"t">>, Link |-> <<"v">>,
              Published |-> FormatDay(0), Avatar |-> DefaultAvatar]
    IN  {[a EXCEPT !.BlogName = <<"a", "|Title:", "b">>, !.Title = <<"c">>],
         [a EXCEPT !.BlogName = <<"a">>, !.Title = <<"b", "|Title:", "c">>],
         [a EXCEPT !.Title = <<"t", "|Link:", "u">>, !.Link = <<"v">>],
         [a EXCEPT !.Title = <<"t">>, !.Link = <<"u", "|Link:", "v">>]}

\* the collections of at most MaxArticles of these articles
KeyCollections == UNION {[1..n -> SeparatorArticles] : n \in 0..MaxArticles}

\* the start of a call of areArticlesIdentical on two such collections
InitKeys ==
    /\ variant = "keys"
    /\ rssLinks = <<>> /\ avatarMapper = [avatarMap |-> <<>>, nameMap |-> <<>>]
    /\ world = SmallWorld
    /\ mainpc = "compare"
    /\ newArticles \in KeyCollections
    /\ existingArticles \in KeyCollections
    /\ arg = <<>>
    /\ Idle

NextFeeds ==
    \/ Dispatch
    \/ StartCloser
    \/ \E f \in Feeds : Attempt(f)
    \/ \E f \in Feeds : Sleep(f)
    \/ \E f \in Feeds : Publish(f)
    \/ \E f \in Feeds : Release(f)
    \/ \E f \in Feeds : WgDone(f)
    \/ CloseChan
    \/ Collect
    \/ Return
    \/ SortArticles
    \/ GetExistingData
    \/ Compare
    \/ Upload

NextRSS ==
    \/ CtxExpire
    \/ StartWorkers
    \/ Distribute
    \/ CloseTasks
    \/ ReturnRSS
    \/ RunSort
    \/ \E w \in Workers : WorkerRecv(w)
    \/ \E w \in Workers : WorkerExit(w)
    \/ \E w \in Workers : WithRetryAttempt(w)
    \/ \E w \in Workers : WithRetryWait(w)
    \/ \E w \in Workers : WithRetryCancel(w)
    \/ \E w \in Workers : processFeedFetched(w)
    \/ \E w \in Workers : processFeedParsed(w)

Next == NextFeeds \/ NextRSS

Spec == Init /\ [][Next]_vars

\* the longest byte sequence handed to a sanitizer on its own
MaxBytes == 3

\* the bytes of those sequences: controls that XML forbids (0x00, 0x08, 0x1F),
\* the three it allows, a space, "<", DEL, and of the bytes above 0x7F a
\* continuation byte, the lead byte 0xC2 and 0xFF
SomeBytes == {0, 8, 9, 10, 13, 31, 32, 60, 127, 130, 194, 255}

ByteStrings == UNION {[1..n -> SomeBytes] : n \in 0..MaxBytes}

\* the start of a call of a sanitizer on a byte sequence
InitSanitize ==
    /\ variant = "sanitize"
    /\ rssLinks = <<>> /\ avatarMapper = [avatarMap |-> <<>>, nameMap |-> <<>>]
    /\ world = SmallWorld
    /\ mainpc = "call"
    /\ newArticles = <<>>
    /\ existingArticles = <<>>
    /\ arg \in ByteStrings
    /\ Idle

\* removeInvalidXMLChars called on its own
CallRemoveInvalidXMLChars ==
    /\ variant = "sanitize" /\ mainpc = "call"
    /\ out' = [fn |-> "removeInvalidXMLChars", val |-> removeInvalidXMLChars(arg)]
    /\ mainpc' = "called"
    /\ UNCHANGED <<loggerVars, rssVars, feedsVars, variant, rssLinks, avatarMapper, world, ctxDone, next,
                   wg, pc, tries, lastErr, ret, log, waits, arg>>

\* CleanXMLContent called on its own
CallCleanXMLContent ==
    /\ variant = "sanitize" /\ mainpc = "call"
    /\ out' = [fn |-> "CleanXMLContent", val |-> CleanXMLContent(arg)]
    /\ mainpc' = "called"
    /\ UNCHANGED <<loggerVars, rssVars, feedsVars, variant, rssLinks, avatarMapper, world, ctxDone, next,
                   wg, pc, tries, lastErr, ret, log, waits, arg>>

NextSanitize == CallRemoveInvalidXMLChars \/ CallCleanXMLContent

\* the two sanitizers applied to every byte sequence
SpecSanitize == InitSanitize /\ [][NextSanitize]_vars

\* ------------------------------------- the entry point and package logging
\* the most LogError calls processor.Run makes in a run explored
MaxLogs == 2

\* everything the entry point and the logger leave alone
pipelineVars == <<callVars, rssVars, feedsVars, variant, rssLinks, avatarMapper, world, ctxDone,
                  next, wg, pc, tries, lastErr, ret, log, waits>>

\* the program runs: main has neither returned nor called os.Exit, and no
\* panic has ended it (the goroutines of the logger end with the program)
running == mainpc \notin {"exited", "panicked"}

\* "errorChan <- msg" of LogError and "summaryChan <- msg" of LogSummary, then
\* on to position after: a send on a closed channel panics (the buffers, 1000
\* and 100 messages, are never full in the runs explored)
logSend(k, msg, after) ==
    IF logChan[k].closed
    THEN /\ panicMsg' = "send on closed channel"
         /\ mainpc' = "panicked"
         /\ UNCHANGED <<logChan, handed>>
    ELSE /\ logChan' = [logChan EXCEPT ![k].buf = Append(@, msg)]
         /\ handed' = [handed EXCEPT ![k] = Append(@, msg)]
         /\ mainpc' = after
         /\ UNCHANGED panicMsg

\* LogError(err) with a non-nil err
LogError(msg, after) == logSend("error", msg, after)

\* LogSummary(msg)
LogSummary(msg, after) == logSend("summary", msg, after)

\* main: config.LoadConfig() fails or succeeds
LoadConfig ==
    /\ variant = "cmd" /\ mainpc = "loadconfig"
    /\ \E ok \in BOOLEAN : mainpc' = IF ok THEN "run" ELSE "cfgerr"
    /\ UNCHANGED <<loggerVars, pipelineVars>>

\* main after a failed LoadConfig: LogError, then CloseLogger and os.Exit(1)
ConfigFailed ==
    /\ variant = "cmd" /\ mainpc = "cfgerr"
    /\ LogError(<<"config load failed">>, "cfgerr.close")
    /\ UNCHANGED <<logFile, logWorker, closepc, closeCalls, pipelineVars>>

\* processor.Run while it runs: one of its calls of LogError
RunLogsError ==
    /\ variant = "cmd" /\ mainpc = "run"
    /\ Len(handed["error"]) < MaxLogs
    /\ LogError(<<"run", ToString(Len(handed["error"]) + 1)>>, "run")
    /\ UNCHANGED <<logFile, logWorker, closepc, closeCalls, pipelineVars>>

\* processor.Run returns an error or nil
RunReturns ==
    /\ variant = "cmd" /\ mainpc = "run"
    /\ \E failed \in BOOLEAN : mainpc' = IF failed THEN "runerr" ELSE "summary"
    /\ UNCHANGED <<loggerVars, pipelineVars>>

\* main after Run returned an error: LogError, then CloseLogger, and on (the
\* os.Exit(1) is commented out)
RunFailed ==
    /\ variant = "cmd" /\ mainpc = "runerr"
    /\ LogError(<<"run failed">>, "runerr.close")
    /\ UNCHANGED <<logFile, logWorker, closepc, closeCalls, pipelineVars>>

\* PrintRunSummary(elapsed): build the text, LogSummary(out); then main's
\* last CloseLogger
PrintRunSummary ==
    /\ variant = "cmd" /\ mainpc = "summary"
    /\ LogSummary(<<"summary">>, "end.close")
    /\ UNCHANGED <<logFile, logWorker, closepc, closeCalls, pipelineVars>>

\* where main goes on after the CloseLogger it called at position at
afterClose(at) ==
    IF at = "cfgerr.close" THEN "exited"
    ELSE IF at = "runerr.close" THEN "summary"
    ELSE "return"

\* CloseLogger(), one statement a step: close(errorChan), close(summaryChan)
\* (closing a closed channel panics), then under logMu the Close of both files
CloseLogger ==
    /\ variant = "cmd" /\ mainpc \in {"cfgerr.close", "runerr.close", "end.close"}
    /\ IF closepc \in {"none", "summaryChan"}
       THEN LET k == IF closepc = "none" THEN "error" ELSE "summary"
            IN  /\ closeCalls' = IF closepc = "none" THEN closeCalls + 1 ELSE closeCalls
                /\ IF logChan[k].closed
                   THEN /\ panicMsg' = "close of closed channel"
                        /\ mainpc' = "panicked"
                        /\ UNCHANGED <<logChan, closepc>>
                   ELSE /\ logChan' = [logChan EXCEPT ![k].closed = TRUE]
                        /\ closepc' = IF closepc = "none" THEN "summaryChan" ELSE "files"
                        /\ UNCHANGED <<mainpc, panicMsg>>
                /\ UNCHANGED logFile
       ELSE /\ logFile' = [k \in LogKinds |-> [logFile[k] EXCEPT !.open = FALSE]]
            /\ closepc' = "none"
            /\ mainpc' = afterClose(mainpc)
            /\ UNCHANGED <<logChan, closeCalls, panicMsg>>
    /\ UNCHANGED <<logWorker, handed, pipelineVars>>

\* main returns: the deferred cancel and processor.Close run, the program ends
MainReturns ==
    /\ variant = "cmd" /\ mainpc = "return"
    /\ mainpc' = "exited"
    /\ UNCHANGED <<loggerVars, pipelineVars>>

\* a log worker, one step: "for msg := range chan" takes the next message or
\* ends on the closed, drained channel; then under logMu, ensureLogFile (the
\* day does not change during a run, the handles are not nil) and WriteString,
\* whose error on a closed file is dropped
logWorkerStep(k) ==
    /\ variant = "cmd" /\ running
    /\ \/ /\ logWorker[k].at = "recv" /\ logChan[k].buf # <<>>
          /\ logWorker' = [logWorker EXCEPT ![k] = [at |-> "write", msg |-> Head(logChan[k].buf)]]
          /\ logChan' = [logChan EXCEPT ![k].buf = Tail(@)]
          /\ UNCHANGED logFile
       \/ /\ logWorker[k].at = "recv" /\ logChan[k].buf = <<>> /\ logChan[k].closed
          /\ logWorker' = [logWorker EXCEPT ![k].at = "exit"]
          /\ UNCHANGED <<logChan, logFile>>
       \/ /\ logWorker[k].at = "write"
          /\ logFile' = IF logFile[k].open
                        THEN [logFile EXCEPT ![k].lines = Append(@, logWorker[k].msg)]
                        ELSE logFile
          /\ logWorker' = [logWorker EXCEPT ![k] = [at |-> "recv", msg |-> <<>>]]
          /\ UNCHANGED logChan
    /\ UNCHANGED <<mainpc, closepc, closeCalls, handed, panicMsg, pipelineVars>>

errorLogWorker == logWorkerStep("error")

summaryLogWorker == logWorkerStep("summary")

\* the start of main of cmd, package logging initialised
InitCmd ==
    /\ variant = "cmd"
    /\ rssLinks = <<>> /\ avatarMapper = [avatarMap |-> <<>>, nameMap |-> <<>>]
    /\ world = SmallWorld
    /\ mainpc = "loadconfig"
    /\ newArticles = <<>>
    /\ existingArticles = <<>>
    /\ arg = <<>>
    /\ Idle

NextCmd ==
    \/ LoadConfig
    \/ ConfigFailed
    \/ RunLogsError
    \/ RunReturns
    \/ RunFailed
    \/ PrintRunSummary
    \/ CloseLogger
    \/ MainReturns
    \/ errorLogWorker
    \/ summaryLogWorker

\* the entry point with the logger's two workers
SpecCmd == InitCmd /\ [][NextCmd]_vars

\* ------------------------------------------- the two fetches, called alone
\* answers beside AllResponses: other statuses, each with a body that is a
\* feed and with a body that is none
OtherStatuses(f) ==
    {[neterr |-> FALSE, badcert |-> FALSE, status |-> st, body |-> b] :
        st \in {201, 203, 206, 301, 404},
        b \in {Body(<<60>>, DocFull(f, 0)), Body(<<60>>, Nil)}}

InitFetch ==
    /\ variant = "fetch"
    /\ rssLinks = <<>> /\ avatarMapper = [avatarMap |-> <<>>, nameMap |-> <<>>]
    /\ world = SmallWorld
    /\ mainpc = "call"
    /\ newArticles = <<>>
    /\ existingArticles = <<>>
    /\ \E f \in Feeds : \E resp \in AllResponses(f) \cup OtherStatuses(f) :
           arg = [link |-> LinkOf(f, FALSE), resp |-> resp]
    /\ Idle

\* fetchFeed called on its own
CallFetchFeed ==
    /\ variant = "fetch" /\ mainpc = "call"
    /\ out' = [fn |-> "fetchFeed", val |-> fetchFeed(arg.link, arg.resp)]
    /\ mainpc' = "called"
    /\ UNCHANGED <<loggerVars, rssVars, feedsVars, variant, rssLinks, avatarMapper, world, ctxDone, next,
                   wg, pc, tries, lastErr, ret, log, waits, arg>>

\* fetchFeedWithFix called on its own
CallFetchFeedWithFix ==
    /\ variant = "fetch" /\ mainpc = "call"
    /\ out' = [fn |-> "fetchFeedWithFix", val |-> fetchFeedWithFix(arg.link, arg.resp)]
    /\ mainpc' = "called"
    /\ UNCHANGED <<loggerVars, rssVars, feedsVars, variant, rssLinks, avatarMapper, world, ctxDone, next,
                   wg, pc, tries, lastErr, ret, log, waits, arg>>

NextFetch == CallFetchFeed \/ CallFetchFeedWithFix

\* the two fetches applied to every answer of a server
SpecFetch == InitFetch /\ [][NextFetch]_vars

\* --------------------------------------- the avatar resolver, called alone
\* homepages beside HomePages: an icon link without href before one with,
\* an icon link without href only, two og:image metas, an og:image without
\* content, a status other than 200
OddPages ==
    {[neterr |-> FALSE, status |-> 200,
      doc |-> << Elem("link", <<"icon">>, <<>>, <<>>, <<>>),
                 Elem("meta", <<>>, <<>>, <<"og:image">>, <<"og.png">>),
                 Elem("link", <<"apple-touch-", "icon">>, <<"touch.png">>, <<>>, <<>>) >>],
     [neterr |-> FALSE, status |-> 200,
      doc |-> << Elem("link", <<"icon">>, <<>>, <<>>, <<>>) >>],
     [neterr |-> FALSE, status |-> 200,
      doc |-> << Elem("meta", <<>>, <<>>, <<"og:image">>, <<"first-og.png">>),
                 Elem("meta", <<>>, <<>>, <<"og:image">>, <<"/", "second-og.png">>) >>],
     [neterr |-> FALSE, status |-> 200,
      doc |-> << Elem("meta", <<>>, <<>>, <<"og:image">>, <<>>),
                 Elem("meta", <<>>, <<>>, <<"og:title">>, <<"title">>) >>],
     [neterr |-> FALSE, status |-> 204,
      doc |-> << Elem("link", <<"icon">>, <<"/", "icon.png">>, <<>>, <<>>) >>]}

\* the feeds handed to the resolver: with and without <image>, with an empty
\* image URL, with an absolute link, a relative link, no link
AvatarFeeds ==
    {[Title |-> <<"Blog", ToString(f)>>, Link |-> link, Image |-> image, Items |-> <<>>] :
        f \in Feeds,
        link \in {<<>>, <<"/blog">>} \cup {<<"https://", "site" \o ToString(g), "/">> : g \in Feeds},
        image \in {Nil, [URL |-> <<>>],
                   [URL |-> <<"https://", "site", "/", "logo.png">>]}}

\* http.Get(blogURL) of a URL without scheme fails before any request is sent
HomeAnswers(blogURL) ==
    IF Len(blogURL) < 2 THEN {[neterr |-> TRUE, status |-> 0, doc |-> <<>>]}
    ELSE HomePages \cup OddPages

InitAvatar ==
    /\ variant = "avatar"
    /\ rssLinks = <<>> /\ avatarMapper = [avatarMap |-> <<>>, nameMap |-> <<>>]
    /\ world = SmallWorld
    /\ mainpc = "call"
    /\ newArticles = <<>>
    /\ existingArticles = <<>>
    /\ \E fd \in AvatarFeeds : \E home \in HomeAnswers(fd.Link) :
           arg = [feed |-> fd, home |-> home]
    /\ Idle

\* getFeedAvatarURL called on its own: its value and the requests it sent
CallGetFeedAvatarURL ==
    /\ variant = "avatar" /\ mainpc = "call"
    /\ out' = [fn |-> "getFeedAvatarURL", val |-> getFeedAvatarURL(arg.feed, arg.home),
               gets |-> homeRequests(arg.feed)]
    /\ mainpc' = "called"
    /\ UNCHANGED <<loggerVars, rssVars, feedsVars, variant, rssLinks, avatarMapper, world, ctxDone, next,
                   wg, pc, tries, lastErr, ret, log, waits, arg>>

\* fetchBlogLogo called on its own with the feed's link
CallFetchBlogLogo ==
    /\ variant = "avatar" /\ mainpc = "call"
    /\ arg.feed.Link # <<>>
    /\ out' = [fn |-> "fetchBlogLogo", val |-> fetchBlogLogo(arg.feed.Link, arg.home),
               gets |-> <<arg.feed.Link>>]
    /\ mainpc' = "called"
    /\ UNCHANGED <<loggerVars, rssVars, feedsVars, variant, rssLinks, avatarMapper, world, ctxDone, next,
                   wg, pc, tries, lastErr, ret, log, waits, arg>>

NextAvatar == CallGetFeedAvatarURL \/ CallFetchBlogLogo

\* the avatar resolver applied to every feed and every homepage
SpecAvatar == InitAvatar /\ [][NextAvatar]_vars

NextCompare == CallIdentical

\* areArticlesIdentical applied to every pair of collections
SpecCompare == InitCompare /\ [][NextCompare]_vars

\* areArticlesIdentical applied to every two collections of articles whose
\* fields contain the separator texts
SpecKeys == InitKeys /\ [][NextCompare]_vars

\* every runnable goroutine is scheduled, every fetch attempt and every wait ends
FairSpec == Spec /\ WF_vars(Next)

\* ------------------------------------------------------------- properties
\* the links of the collection the dispatcher has built so far
outLinks ==
    IF variant = "feeds" THEN [k \in 1..Len(results) |-> results[k].FeedLink]
    ELSE [k \in 1..Len(articles) |-> rssLinks[articles[k].feed]]
             \o [k \in 1..Len(errs) |-> rssLinks[errs[k].feed]]

\* the dispatcher has returned to its caller
Returned == mainpc \in {"returned", "sorted"}

\* the fetch tasks that hold a slot: admitted and not yet through
active ==
    IF variant = "feeds"
    THEN {f \in Feeds : pc[f] \in {"attempt", "sleep", "fetched", "release"}}
    ELSE {f \in Feeds : pc[f] \in {"get", "getwait", "getret", "parse", "parsewait", "parseret"}}

\* the retry controller of feed f has returned and its caller has not gone on
atReturn(f) == pc[f] \in {"fetched", "getret", "parseret"}

\* the attempt limit, the first wait and the growth factor of the variant
limitN == IF variant = "feeds" THEN maxRetries ELSE MaxRetries
firstWait == IF variant = "feeds" THEN baseWait ELSE RetryInterval
growth == IF variant = "feeds" THEN backoffMultiple ELSE 2

\* the error e is, or wraps at some depth, the error of attempt number n
RECURSIVE HasAttempt(_, _)
HasAttempt(e, n) ==
    IF e = Nil THEN FALSE
    ELSE IF e.attempt = n THEN TRUE
    ELSE HasAttempt(e.cause, n)

\* C1: the collection holds no link twice at any time, and once the dispatcher
\* has returned it holds every input link exactly once, in both variants
C1_OneResultPerURL ==
    /\ \A f \in DOMAIN rssLinks :
          Cardinality({k \in DOMAIN outLinks : outLinks[k] = rssLinks[f]}) <= 1
    /\ Returned =>
          /\ Len(outLinks) = Len(rssLinks)
          /\ \A f \in DOMAIN rssLinks : \E k \in DOMAIN outLinks : outLinks[k] = rssLinks[f]

\* fetchAllFeeds has returned a mix of failures and successes, collected in an
\* order that is not the input order
C1_Witness ==
    /\ variant = "feeds" /\ Returned /\ Len(rssLinks) = NumFeeds
    /\ results[1].FeedLink # rssLinks[1]
    /\ \E k \in DOMAIN results : results[k].Err # Nil
    /\ \E k \in DOMAIN results : results[k].Err = Nil

\* C2: in every reachable state the number of admitted, unfinished fetch tasks
\* is at most the capacity: maxGoroutines in fetchAllFeeds, MaxConcurrency in
\* fetchAllRSS
C2_CapacityBound ==
    Cardinality(active) <= (IF variant = "feeds" THEN maxGoroutines ELSE MaxConcurrency)

\* every slot is taken while the dispatch loop still has a link to start
C2_Witness ==
    /\ variant = "feeds" /\ mainpc = "dispatch" /\ next <= Len(rssLinks)
    /\ Cardinality(active) = maxGoroutines

\* C3: whenever the dispatcher has returned every task has published its result
\* and finished, and under fair scheduling the dispatcher eventually returns
C3_ReturnsAfterAllPublished ==
    /\ [](Returned =>
            \A f \in DOMAIN rssLinks :
               /\ pc[f] \in {"exit", "done"}
               /\ \E k \in DOMAIN outLinks : outLinks[k] = rssLinks[f])
    /\ <>Returned

\* fetchAllFeeds has returned from a run with more links than slots
C3_Witness ==
    variant = "feeds" /\ mainpc = "returned" /\ Len(results) > maxGoroutines

\* C4: a retry controller that returns success after k failures made k + 1
\* attempts, the last one the only success, and slept exactly k waits, the
\* i-th being the first wait times the growth factor to the power i - 1
C4_FailThenSucceed ==
    \A f \in Feeds :
       (atReturn(f) /\ ret[f].err = Nil) =>
          LET k == Len(log[f]) - 1
          IN  /\ k >= 0 /\ k < limitN
              /\ \A j \in 1..k : ~log[f][j].ok
              /\ log[f][k + 1].ok
              /\ Len(waits[f]) = k
              /\ \A i \in 1..k : waits[f][i] = firstWait * growth^(i - 1)

\* fetchFeedWithRetry returns success after two failures and two waits
C4_Witness ==
    \E f \in Feeds : pc[f] = "fetched" /\ ret[f].err = Nil /\ Len(waits[f]) = 2

C6_DeadlineKeepsLastError ==
    \A f \in Feeds :
       (ctxDone /\ pc[f] \in {"getret", "parseret"} /\ ret[f].err # Nil) =>
          HasAttempt(ret[f].err, Len(log[f]))

\* C7: in fetchFeedWithRetry the first attempt of a feed goes through fetchFeed
\* and every later one through fetchFeedWithFix
C7_PlainThenHardened ==
    variant = "feeds" =>
       \A f \in Feeds : \A j \in DOMAIN log[f] :
          log[f][j].path = (IF j = 1 THEN "fetchFeed" ELSE "fetchFeedWithFix")

\* a feed whose first two attempts failed and whose third attempt succeeded
C7_Witness ==
    \E f \in Feeds :
       /\ variant = "feeds" /\ Len(log[f]) = maxRetries
       /\ log[f][maxRetries].ok /\ log[f][maxRetries].path = "fetchFeedWithFix"

\* C8: a feed that parses to zero entries is returned by the attempt that
\* fetched it, the only successful one, and every collected result whose error
\* is the empty-feed error has its link under feedEmpties and not under
\* parseFails
C8_EmptyFeedTally ==
    /\ \A f \in Feeds :
          (pc[f] = "fetched" /\ ret[f].err = Nil /\ Len(ret[f].feed.Items) = 0) =>
             /\ log[f][Len(log[f])].ok
             /\ \A j \in 1..(Len(log[f]) - 1) : ~log[f][j].ok
    /\ variant = "feeds" =>
          \A k \in DOMAIN results :
             (results[k].Err # Nil /\ results[k].Err.cause.text = <<"no content">>) =>
                /\ Contains(problems.feedEmpties, results[k].FeedLink)
                /\ ~Contains(problems.parseFails, results[k].FeedLink)

\* C9: when main has sorted, every link has its result, every successful
\* result's article is in the list handed to persistence, that list holds
\* nothing else, and each article is made of its own feed's first entry
C9_FailureIsolated ==
    (variant = "feeds" /\ mainpc = "sorted") =>
       /\ \A f \in DOMAIN rssLinks : \E k \in DOMAIN results : results[k].FeedLink = rssLinks[f]
       /\ \A k \in DOMAIN results :
             results[k].Err = Nil =>
                \E j \in DOMAIN newArticles : newArticles[j] = results[k].Article
       /\ Len(newArticles) = Cardinality({k \in DOMAIN results : results[k].Err = Nil})
       /\ \A f \in DOMAIN rssLinks : \A k \in DOMAIN results :
             (results[k].FeedLink = rssLinks[f] /\ results[k].Err = Nil) =>
                \E resp \in world.feeds[f] :
                   /\ resp.body.doc # Nil /\ resp.body.doc.Items # <<>>
                   /\ results[k].Article.Title = resp.body.doc.Items[1].Title
                   /\ results[k].Article.Link = resp.body.doc.Items[1].Link

\* the first result collected is a feed that failed all its attempts, and the
\* articles of the two other feeds are in the sorted list
C9_Witness ==
    /\ variant = "feeds" /\ mainpc = "sorted" /\ Len(results) = NumFeeds
    /\ results[1].Err # Nil /\ HasAttempt(results[1].Err, maxRetries)
    /\ Len(newArticles) = NumFeeds - 1

\* C10 as stated: every published feedResult has exactly one of Article and
\* Err set, and an Article has a non-empty title, link and published string
C10_ArticleFieldsNonEmpty ==
    \A k \in DOMAIN resultChan :
       LET r == resultChan[k]
       IN  /\ (r.Err # Nil) <=> (r.Article = Nil)
           /\ r.Err = Nil =>
                 /\ r.Article.Title # <<>>
                 /\ r.Article.Link # <<>>
                 /\ r.Article.Published # <<>>

\* C10: every published feedResult has exactly one of Article and Err set, and
\* an Article carries the title and the link of the first entry of a document
\* its feed served, as they are, and a non-empty published string
C10_ExactlyOneOfArticleErr ==
    \A k \in DOMAIN resultChan :
       LET r == resultChan[k]
       IN  /\ (r.Err # Nil) <=> (r.Article = Nil)
           /\ r.Err = Nil =>
                 /\ r.Article.Published # <<>>
                 /\ \E f \in DOMAIN rssLinks : \E resp \in world.feeds[f] :
                       /\ r.FeedLink = rssLinks[f]
                       /\ resp.body.doc # Nil /\ resp.body.doc.Items # <<>>
                       /\ r.Article.Title = resp.body.doc.Items[1].Title
                       /\ r.Article.Link = resp.body.doc.Items[1].Link

\* a task has published an article whose first entry had no title
C10_Witness ==
    \E k \in DOMAIN resultChan :
       /\ resultChan[k].Err = Nil
       /\ resultChan[k].Article.Title = <<>>
       /\ resultChan[k].Article.Published # <<>>

\* the avatars that resolution can give the feed of a link in this world: the
\* non-empty results of getFeedAvatarURL over the documents and homepages served
ResolvedAvatars(link) ==
    {getFeedAvatarURL(resp.body.doc, home) :
        resp \in {x \in UNION {world.feeds[f] : f \in {g \in DOMAIN rssLinks : rssLinks[g] = link}} :
                     x.body.doc # Nil},
        home \in world.homes} \ {<<>>}

\* C11 as stated: every article that fetchAllFeeds returns has a non-empty
\* avatar, neither the empty string nor the sentinel BROKEN
C11_AvatarNonEmpty ==
    (variant = "feeds" /\ Returned) =>
       \A k \in DOMAIN results :
          results[k].Err = Nil =>
             /\ results[k].Article.Avatar # <<>>
             /\ results[k].Article.Avatar # BROKEN

\* C11: every article that fetchAllFeeds returns has as avatar the mapped
\* avatar of its host, a URL that resolution gave, or cfg.DefaultAvatar, and
\* never the sentinel BROKEN; the avatar is non-empty when DEFAULT_AVATAR is set
C11_AvatarResolvedMappedOrDefault ==
    (variant = "feeds" /\ Returned) =>
       \A k \in DOMAIN results :
          results[k].Err = Nil =>
             LET a == results[k].Article.Avatar
                 m == GetAvatarByURL(avatarMapper, results[k].FeedLink)
             IN  /\ a # BROKEN
                 /\ \/ m.found /\ a = m.avatar
                    \/ a = world.defaultAvatar
                    \/ a \in ResolvedAvatars(results[k].FeedLink)
                 /\ world.defaultAvatar # <<>> => a # <<>>

\* fetchAllFeeds has returned an article whose avatar was unusable and now is
\* the configured default
C11_Witness ==
    /\ variant = "feeds" /\ Returned /\ world.defaultAvatar # <<>>
    /\ \E k \in DOMAIN results :
          /\ results[k].Err = Nil
          /\ results[k].Article.Avatar = world.defaultAvatar
          /\ \E j \in DOMAIN problems.noAvatar : problems.noAvatar[j] = results[k].FeedLink

\* the collection loop takes from the channel a success whose avatar failed
\* the HEAD check
CollectsBroken ==
    /\ variant = "feeds" /\ mainpc = "collect" /\ resultChan # <<>>
    /\ Len(results') = Len(results) + 1
    /\ Head(resultChan).Err = Nil
    /\ Head(resultChan).Article.Avatar = BROKEN

resultOf(a) == CHOOSE k \in DOMAIN results : results[k].Err = Nil /\ results[k].Article = a

\* the parsed publish time of article a of the final list
parsedTime(a) == results[resultOf(a)].ParsedTime

\* the position in the input list of the feed URL of article a
inputIndex(a) == CHOOSE f \in DOMAIN rssLinks : rssLinks[f] = results[resultOf(a)].FeedLink

\* RSSProcessor.Run: the slice articles with the keys its sort compares
keyedByDate == [k \in DOMAIN articles |->
                   [article |-> articles[k], t |-> parseDate(articles[k].art.Date)]]

\* C18 as stated: the final article list is in order of the parsed publish
\* time, newest first, in main and in RSSProcessor.Run alike
C18_NewestFirst ==
    mainpc = "sorted" =>
       IF variant = "feeds"
       THEN \A i, j \in DOMAIN newArticles :
               i < j => parsedTime(newArticles[i]) >= parsedTime(newArticles[j])
       ELSE \A i, j \in DOMAIN articles : i < j => articles[i].t >= articles[j].t

\* C19 as stated: of two articles of the final list with equal parsed time
\* the one whose feed URL is earlier in the input list comes first
C19_TiesInInputOrder ==
    (variant = "feeds" /\ mainpc = "sorted") =>
       \A i, j \in DOMAIN newArticles :
          (i < j /\ parsedTime(newArticles[i]) = parsedTime(newArticles[j]))
             => inputIndex(newArticles[i]) < inputIndex(newArticles[j])

occurrences(coll, a) ==
    Cardinality({k \in DOMAIN coll : /\ coll[k].BlogName = a.BlogName
                                     /\ coll[k].Title = a.Title
                                     /\ coll[k].Link = a.Link})

\* the two collections hold the same identities the same number of times
sameIdentities(c1, c2) ==
    \A a \in {c1[k] : k \in DOMAIN c1} \cup {c2[k] : k \in DOMAIN c2} :
       occurrences(c1, a) = occurrences(c2, a)

\* the rearrangements of a collection
rearranged(coll) ==
    LET n == Len(coll)
    IN  {[k \in 1..n |-> coll[p[k]]] :
            p \in {q \in [1..n -> 1..n] : \A a, b \in 1..n : a # b => q[a] # q[b]}}

\* C13: a run of main that read the persisted collection without error and
\* found in it the identities of its new collection, each as often, calls
\* neither uploadToGitHub nor uploadToCos and ends
C13_IdenticalMeansNoUpload ==
    (/\ variant = "feeds" /\ mainpc \in {"upload", "done"}
     /\ existingErr = Nil
     /\ sameIdentities(newArticles, existingArticles))
       => uploads = <<>> /\ mainpc = "done"

\* a run has ended without an upload on a persisted collection that is its
\* own new collection in another order
C13_Witness ==
    /\ variant = "feeds" /\ mainpc = "done"
    /\ existingErr = Nil /\ store.status = 200
    /\ Len(newArticles) > 1 /\ existingArticles # newArticles
    /\ sameIdentities(newArticles, existingArticles)
    /\ uploads = <<>>

\* C14: areArticlesIdentical(A, A) holds; a rearrangement of either argument
\* gives the same value; and the value is false when some identity is in the
\* two collections a different number of times
C14_ReflexiveOrderMultiplicity ==
    (variant = "compare" /\ mainpc = "compared") =>
       /\ areArticlesIdentical(newArticles, newArticles)
       /\ areArticlesIdentical(existingArticles, existingArticles)
       /\ \A c \in rearranged(newArticles) :
             areArticlesIdentical(c, existingArticles) = identical.v
       /\ \A c \in rearranged(existingArticles) :
             areArticlesIdentical(newArticles, c) = identical.v
       /\ ~sameIdentities(newArticles, existingArticles) => ~identical.v

\* two collections of equal length with the same identities, one of them
\* twice in the first and another twice in the second, compared as different
C14_Witness ==
    /\ variant = "compare" /\ mainpc = "compared"
    /\ Len(newArticles) = Len(existingArticles)
    /\ \A a \in {newArticles[k] : k \in DOMAIN newArticles}
                   \cup {existingArticles[k] : k \in DOMAIN existingArticles} :
          occurrences(newArticles, a) > 0 /\ occurrences(existingArticles, a) > 0
    /\ ~sameIdentities(newArticles, existingArticles)
    /\ ~identical.v

\* C15: the value of areArticlesIdentical is exactly "the same identities
\* (blog name, title, link), each as often": collections that differ in
\* nothing but the published strings and avatars of their articles are identical
C15_PublishedNotInIdentity ==
    (variant = "compare" /\ mainpc = "compared") =>
       /\ identical.v = sameIdentities(newArticles, existingArticles)
       /\ (/\ Len(newArticles) = Len(existingArticles)
           /\ \A k \in DOMAIN newArticles :
                 /\ newArticles[k].BlogName = existingArticles[k].BlogName
                 /\ newArticles[k].Title = existingArticles[k].Title
                 /\ newArticles[k].Link = existingArticles[k].Link)
             => identical.v

\* two collections that differ in a published string and in nothing of the
\* identities have been compared as identical
C15_Witness ==
    /\ variant = "compare" /\ mainpc = "compared"
    /\ Len(newArticles) = Len(existingArticles)
    /\ \A k \in DOMAIN newArticles :
          /\ newArticles[k].BlogName = existingArticles[k].BlogName
          /\ newArticles[k].Title = existingArticles[k].Title
          /\ newArticles[k].Link = existingArticles[k].Link
    /\ \E k \in DOMAIN newArticles : newArticles[k].Published # existingArticles[k].Published
    /\ identical.v

\* what an earlier run over the same feed responses uploaded: the articles of
\* this run in some order, as they are or with the published strings and
\* avatars of that day
EarlierUploads ==
    {MarshalIndent([Items |-> c, Updated |-> <<"updated", "before">>]) :
        c \in rearranged(newArticles)
                 \cup rearranged([k \in DOMAIN newArticles |-> persistedEarlier(newArticles[k])])}

\* C16: a run that reads from the save target what an earlier run over the
\* same feed responses uploaded finds the collections identical, uploads
\* nothing and ends
C16_SecondRunWritesNothing ==
    (/\ variant = "feeds" /\ mainpc \in {"upload", "done"}
     /\ ~store.neterr /\ store.status = 200
     /\ store.file \in EarlierUploads)
       => identical = Ptr(TRUE) /\ uploads = <<>> /\ mainpc = "done"

\* a run has ended on the upload of an earlier run whose article has a title
\* that is escaped in the file, another published string and another avatar
C16_Witness ==
    /\ variant = "feeds" /\ mainpc = "done"
    /\ ~store.neterr /\ store.status = 200
    /\ store.file \in EarlierUploads
    /\ \E k \in DOMAIN newArticles :
          /\ Contains(newArticles[k].Title, "&")
          /\ existingArticles[k].Published # newArticles[k].Published
    /\ uploads = <<>>

\* C17: when the save target answers "not found", getExistingData returns no
\* articles and no error, nothing is logged for it, and main compares the new
\* collection with the empty one
C17_NotFoundIsEmpty ==
    (/\ variant = "feeds" /\ mainpc \in {"compare", "upload", "done"}
     /\ ~store.neterr /\ store.status = 404)
       => /\ existingErr = Nil
          /\ existingArticles = <<>>
          /\ \A k \in DOMAIN appLog : appLog[k] # <<"[ERROR]", "existing data">>
          /\ mainpc \in {"upload", "done"} => identical = Ptr(newArticles = <<>>)

\* a run whose save target on GitHub had no data.json has uploaded its articles
C17_Witness ==
    /\ variant = "feeds" /\ mainpc = "done"
    /\ store.target = "GITHUB" /\ ~store.neterr /\ store.status = 404
    /\ newArticles # <<>>
    /\ identical = Ptr(FALSE)
    /\ Len(uploads) = 1

\* the collection loop of fetchAllFeeds run from the tally pr and the results
\* rs over the results chan, in the order of chan
aggregate(pr, rs, chan) ==
    LET F[k \in 0..Len(chan)] ==
            IF k = 0 THEN [problems |-> pr, results |-> rs]
            ELSE [problems |-> tally(F[k - 1].problems, chan[k], avatarMapper,
                                     world.defaultAvatar),
                  results |-> Append(F[k - 1].results,
                                     collected(chan[k], avatarMapper, world.defaultAvatar))]
    IN  F[Len(chan)]

\* what of an aggregation does not depend on order: the set of articles, the
\* success count and the set of links of each problem category
outcome(agg) ==
    LET items == itemsWithTime(agg.results)
        set(q) == {q[k] : k \in DOMAIN q}
    IN  [articles |-> {items[k].article : k \in DOMAIN items},
         successCount |-> Len(items),
         parseFails |-> set(agg.problems.parseFails),
         feedEmpties |-> set(agg.problems.feedEmpties),
         noAvatar |-> set(agg.problems.noAvatar),
         brokenAvatar |-> set(agg.problems.brokenAvatar)]

\* C21: whatever the order in which the results waiting on resultChan arrive,
\* the collection loop and main's extraction end with the same set of
\* articles, the same success count and the same set of links per category
C21_ArrivalOrderIrrelevant ==
    variant = "feeds" =>
       \A c \in rearranged(resultChan) :
          outcome(aggregate(problems, results, c))
             = outcome(aggregate(problems, results, resultChan))

\* three results wait on resultChan: a failure, an empty feed and a success
C21_Witness ==
    /\ variant = "feeds" /\ Len(resultChan) = NumFeeds
    /\ \E i, j, k \in DOMAIN resultChan :
          /\ resultChan[i].Err # Nil /\ Contains(resultChan[i].Err.text, ParseFailText)
          /\ resultChan[j].Err # Nil /\ Contains(resultChan[j].Err.text, FeedEmptyText)
          /\ ~Contains(resultChan[j].Err.text, ParseFailText)
          /\ resultChan[k].Err = Nil

\* the published time of an entry as the claim determines it: the parser's
\* timestamp, else the string parsed by the accepted formats, else the clock
timeDetermined(latest, t) ==
    IF latest.PublishedParsed # Nil THEN t = latest.PublishedParsed.v
    ELSE IF latest.Published # <<>> /\ parseTime(latest.Published).err = Nil
    THEN t = parseTime(latest.Published).t
    ELSE t \in world.clock

\* the goroutine of fetchAllFeeds publishes for a fetched feed with an entry:
\* the result is a success with the time so determined
PublishKeepsFeed(f) ==
    (/\ variant = "feeds" /\ pc[f] = "fetched" /\ pc'[f] = "release"
     /\ ret[f].err = Nil /\ ret[f].feed # Nil /\ ret[f].feed.Items # <<>>)
       => LET r == resultChan'[Len(resultChan')]
          IN  /\ r.Err = Nil /\ r.Article # Nil
              /\ timeDetermined(ret[f].feed.Items[1], r.ParsedTime)

\* processFeed ends for a parsed feed with an entry: an article is added
ProcessKeepsFeed(w) ==
    (/\ variant = "rss" /\ wpc[w] = "busy" /\ cur[w] \in Feeds
     /\ pc[cur[w]] = "parseret" /\ pc'[cur[w]] = "done"
     /\ ret[cur[w]].err = Nil /\ ret[cur[w]].val.Items # <<>>)
       => /\ Len(articles') = Len(articles) + 1
          /\ errs' = errs

\* C22 as stated: in fetchAllFeeds and in processFeed alike, a fetched feed
\* with an entry yields an article whatever its published string is; the time
\* is the parser's timestamp, else the parsed string, else the clock
C22_TimeNeverFailsFetch ==
    [][(\A f \in Feeds : PublishKeepsFeed(f)) /\ (\A w \in Workers : ProcessKeepsFeed(w))]_vars

\* the bytes of data that are 0x09, 0x0A, 0x0D or at least 0x20, in order
allowedBytes(data) ==
    LET ok(b) == b \in {9, 10, 13} \/ b >= 32 IN SelectSeq(data, ok)

\* C23 as stated: the value of a sanitizer, removeInvalidXMLChars or
\* CleanXMLContent, is its argument without the bytes below 0x20 other than
\* 0x09, 0x0A and 0x0D, every other byte kept in place
C23_SanitizerExact ==
    (variant = "sanitize" /\ mainpc = "called") => out.val = allowedBytes(arg)

\* C24: removeInvalidXMLChars applied to its own value returns that value
C24_SanitizerIdempotent ==
    (variant = "sanitize" /\ mainpc = "called" /\ out.fn = "removeInvalidXMLChars") =>
       removeInvalidXMLChars(out.val) = out.val

\* removeInvalidXMLChars has deleted a byte from between two bytes it kept
C24_Witness ==
    /\ variant = "sanitize" /\ mainpc = "called" /\ out.fn = "removeInvalidXMLChars"
    /\ Len(arg) = 3 /\ Len(out.val) = 2
    /\ out.val = <<arg[1], arg[3]>>

\* ---------------------------------------------------------------- C25, C26
\* the feed handed to the resolver carries a non-empty embedded image URL
hasEmbeddedImage(fd) == fd.Image # Nil /\ fd.Image.URL # <<>>

\* the homepage answered 200 and exposes an icon link with an href
exposesIcon(home) ==
    /\ ~home.neterr /\ home.status = 200
    /\ \E k \in DOMAIN home.doc :
          /\ home.doc[k].tag = "link" /\ Contains(home.doc[k].rel, "icon")
          /\ home.doc[k].href # <<>>

\* C25: for a feed with a non-empty embedded image URL, getFeedAvatarURL
\* returns that URL and sends no request to the homepage, whatever the feed's
\* link and whatever the homepage would have answered.
C25_EmbeddedImageWins ==
    (/\ variant = "avatar" /\ mainpc = "called" /\ out.fn = "getFeedAvatarURL"
     /\ hasEmbeddedImage(arg.feed))
        => /\ out.val = arg.feed.Image.URL
           /\ out.gets = <<>>

\* the resolver has answered for a feed with an embedded image, a link, and a
\* homepage that exposes a reachable icon
C25_Witness ==
    /\ variant = "avatar" /\ mainpc = "called" /\ out.fn = "getFeedAvatarURL"
    /\ hasEmbeddedImage(arg.feed)
    /\ Len(arg.feed.Link) >= 2
    /\ exposesIcon(arg.home)
    /\ out.val = arg.feed.Image.URL

\* the least element of a non-empty set of positions
firstOf(S) == CHOOSE k \in S : \A j \in S : k <= j

\* the greatest element of a non-empty set of positions
lastOf(S) == CHOOSE k \in S : \A j \in S : k >= j

\* positions of the <link> elements whose rel contains "icon"
iconLinks(doc) == {k \in DOMAIN doc : doc[k].tag = "link" /\ Contains(doc[k].rel, "icon")}

\* positions of the og:image metas that have a content
ogImages(doc) ==
    {k \in DOMAIN doc : /\ doc[k].tag = "meta" /\ doc[k].property = <<"og:image">>
                         /\ doc[k].content # <<>>}

\* scheme://host/favicon.ico of a link that has a scheme and a host
faviconOf(link) == <<link[1], link[2], "/", "favicon.ico">>

\* the resolver has answered for a feed without embedded image
resolvedWithoutImage ==
    /\ variant = "avatar" /\ mainpc = "called" /\ out.fn = "getFeedAvatarURL"
    /\ ~hasEmbeddedImage(arg.feed)

\* what C26 says of a homepage that was read, icons being the icon links meant
homepageChoice(link, doc, icons, val) ==
    IF icons # {} THEN val = makeAbsoluteURL(link, doc[firstOf(icons)].href)
    ELSE IF ogImages(doc) # {}
    THEN \E k \in ogImages(doc) : val = makeAbsoluteURL(link, doc[k].content)
    ELSE val = faviconOf(link)

\* C26 as stated: without embedded image, no link gives ""; a homepage that
\* fails or answers another status than 200 gives scheme://host/favicon.ico;
\* else the first <link> whose rel contains "icon", else the og:image content,
\* else scheme://host/favicon.ico (links with scheme and host).
C26_FirstIconLink ==
    resolvedWithoutImage =>
        LET link == arg.feed.Link
            home == arg.home
        IN  IF link = <<>> THEN out.val = <<>>
            ELSE Len(link) >= 2 =>
                    IF home.neterr \/ home.status # 200 THEN out.val = faviconOf(link)
                    ELSE homepageChoice(link, home.doc, iconLinks(home.doc), out.val)

\* C26 amended: the icon link chosen is the first one that has a non-empty
\* href, the og:image chosen is the last one with a content, and the favicon
\* of a link without scheme or host is the empty string.
C26_FirstIconLinkWithHref ==
    resolvedWithoutImage =>
        LET link == arg.feed.Link
            home == arg.home
            withHref == {k \in iconLinks(home.doc) : home.doc[k].href # <<>>}
            og == ogImages(home.doc)
        IN  IF link = <<>> THEN out.val = <<>> /\ out.gets = <<>>
            ELSE IF Len(link) < 2 THEN out.val = <<>>
            ELSE IF home.neterr \/ home.status # 200 THEN out.val = faviconOf(link)
            ELSE /\ homepageChoice(link, home.doc, withHref, out.val)
                 /\ (withHref = {} /\ og # {}) =>
                        out.val = makeAbsoluteURL(link, home.doc[lastOf(og)].content)

\* the resolver has answered from a homepage whose first icon link has no href
\* and whose later icon link has one
C26_Witness ==
    /\ resolvedWithoutImage
    /\ Len(arg.feed.Link) >= 2
    /\ ~arg.home.neterr /\ arg.home.status = 200
    /\ iconLinks(arg.home.doc) # {}
    /\ arg.home.doc[firstOf(iconLinks(arg.home.doc))].href = <<>>
    /\ \E k \in iconLinks(arg.home.doc) : out.val = makeAbsoluteURL(arg.feed.Link, arg.home.doc[k].href)
                                             /\ arg.home.doc[k].href # <<>>

\* --------------------------------------------------------------------- C27
\* the run of the scenario: three plain links in the scenario world
inScenario ==
    /\ variant = "feeds" /\ world = ScenarioWorld /\ Len(rssLinks) = 3

\* C27: in the run where url1 always serves a feed with an embedded avatar,
\* url2 always answers 500 and url3 always serves a feed without entries, url2
\* is given up after exactly three attempts, and once main has sorted, the
\* output holds exactly one article, the one of url1 with its embedded avatar,
\* parseFails is [url2], feedEmpties is [url3] and no avatar problem is
\* recorded, in every interleaving of the three tasks.
C27_ScenarioOutcome ==
    inScenario =>
        /\ pc[2] = "fetched" =>
              /\ Len(log[2]) = 3
              /\ \A k \in 1..3 : ~log[2][k].ok
              /\ ret[2].err # Nil
        /\ mainpc \in {"returned", "sorted", "compare", "upload", "done"} =>
              /\ problems.parseFails = <<rssLinks[2]>>
              /\ problems.feedEmpties = <<rssLinks[3]>>
              /\ problems.noAvatar = <<>> /\ problems.brokenAvatar = <<>>
              /\ Len(results) = 3
        /\ mainpc \in {"sorted", "compare", "upload", "done"} =>
              /\ Len(newArticles) = 1
              /\ successCount = 1
              /\ newArticles[1].BlogName = DocFull(1, MaxTime).Title
              /\ newArticles[1].Title = DocFull(1, MaxTime).Items[1].Title
              /\ newArticles[1].Link = DocFull(1, MaxTime).Items[1].Link
              /\ newArticles[1].Avatar = DocFull(1, MaxTime).Image.URL

\* the scenario has run to the sorted output, with the result of url2 received
\* first and the result of url1 last
C27_Witness ==
    /\ inScenario /\ mainpc = "sorted"
    /\ results[1].FeedLink = rssLinks[2]
    /\ results[3].FeedLink = rssLinks[1]
    /\ Len(newArticles) = 1

\* --------------------------------------------------------------------- C28
\* the fetch of task f ended with a feed that has at least one entry
fetchedWithEntries(f) ==
    ret[f].err = Nil /\ ret[f].feed # Nil /\ Len(ret[f].feed.Items) >= 1

\* the step of task f that sends its result: an Article exactly when the fetch
\* gave a feed with entries, and then the title and link of the first entry
PublishFirstEntry(f) ==
    (pc[f] = "fetched" /\ pc'[f] = "release") =>
        LET r == resultChan'[Len(resultChan')]
        IN  /\ Len(resultChan') = Len(resultChan) + 1
            /\ r.FeedLink = rssLinks[f]
            /\ IF fetchedWithEntries(f)
               THEN /\ r.Err = Nil /\ r.Article # Nil
                    /\ r.Article.Title = ret[f].feed.Items[1].Title
                    /\ r.Article.Link = ret[f].feed.Items[1].Link
               ELSE r.Err # Nil /\ r.Article = Nil

\* the step that receives a result keeps what it is: an error stays an error
\* without Article, an Article keeps the title and link of its entry
CollectKeepsEntry ==
    (mainpc = "collect" /\ Len(results') = Len(results) + 1) =>
        LET r == Head(resultChan)
            c == results'[Len(results')]
        IN  /\ c.FeedLink = r.FeedLink
            /\ (c.Err = Nil) <=> (r.Err = Nil)
            /\ IF r.Err = Nil
               THEN c.Article.Title = r.Article.Title /\ c.Article.Link = r.Article.Link
               ELSE c.Article = Nil

\* results that carry an Article
successes == {k \in DOMAIN results : results[k].Err = Nil}

\* main's output: as many articles as successes, each the Article of one
\* successful result and each successful result's Article among them
OutputIsTheSuccesses ==
    (variant = "feeds" /\ mainpc \in {"sorted", "compare", "upload", "done"}) =>
        /\ Len(newArticles) = successCount
        /\ successCount = Cardinality(successes)
        /\ \A k \in successes :
              Cardinality({n \in DOMAIN newArticles : newArticles[n] = results[k].Article})
                  = Cardinality({j \in successes : results[j].Article = results[k].Article})
        /\ \A n \in DOMAIN newArticles : \E k \in successes : results[k].Article = newArticles[n]

\* C28: every feed fetched with at least one entry yields exactly one Article,
\* built from its first entry; a failed or empty feed yields none; the output
\* holds the Articles of the successful results and nothing else, so its
\* length is the success count.
C28_OneArticleFromFirstEntry ==
    [][/\ variant = "feeds" => (\A f \in Feeds : PublishFirstEntry(f)) /\ CollectKeepsEntry
       /\ OutputIsTheSuccesses']_vars

\* the output holds one Article although three feeds were fetched: one feed
\* failed, one was empty, and the Article carries the first entry's title
C28_Witness ==
    /\ variant = "feeds" /\ mainpc = "sorted"
    /\ Len(results) = 3 /\ Cardinality(successes) = 1
    /\ Len(newArticles) = 1
    /\ newArticles[1].Title[1] = "New"
    /\ \E k \in DOMAIN results : Contains(results[k].Err.text, FeedEmptyText)

\* --------------------------------------------------------------------- C29
\* one of the two fetches has answered
fetched == variant = "fetch" /\ mainpc = "called"

\* the GET met a transport error: no connection, or, for the client that
\* verifies certificates, a certificate that does not verify
transportError == arg.resp.neterr \/ (out.fn = "fetchFeed" /\ arg.resp.badcert)

\* the body was sanitized and handed to the parser: the value is the parser's
bodyParsed ==
    out.val = ParseString(Body(removeInvalidXMLChars(arg.resp.body.bytes), arg.resp.body.doc))

\* the fetch failed before any parsing: no feed, and an error that is not the
\* parser's
fetchFailed ==
    /\ out.val.feed = Nil /\ out.val.err # Nil
    /\ out.val.err.text[1] \in {"Get", "http error:", "HTTP error:"}

\* C29 as stated: a GET answered with any status from 200 to 299 is a success
\* (the body is sanitized and parsed); any other status and any transport
\* error is a fetch failure.
C29_Any2xxIsSuccess ==
    fetched =>
        IF ~transportError /\ arg.resp.status >= 200 /\ arg.resp.status <= 299
        THEN bodyParsed
        ELSE fetchFailed

\* C29 amended: a GET answered with status 200 is a success (the body is
\* sanitized and parsed); every other status, the other 2xx included, and any
\* transport error is a fetch failure.
C29_Only200IsSuccess ==
    fetched =>
        IF ~transportError /\ arg.resp.status = 200
        THEN bodyParsed
        ELSE fetchFailed

\* a fetch was answered 203 with a body that is a feed, and failed
C29_Witness ==
    /\ fetched
    /\ ~transportError /\ arg.resp.status = 203 /\ arg.resp.body.doc # Nil
    /\ fetchFailed

\* --------------------------------------------------------------------- C30
\* the summary of the run has been handed to appendLog
summaryLogged == \E k \in DOMAIN appLog : appLog[k] # <<>> /\ appLog[k][1] = "summary"

\* C30: a run of main that got through the fetch phase and has ended has
\* handed the summary of the problem tally to appendLog, whether the new
\* articles equalled the stored ones or not and whether the upload succeeded
\* or not.
C30_SummaryAlwaysLogged ==
    (variant = "feeds" /\ mainpc = "done") => summaryLogged

\* --------------------------------------------------------------------- C31
\* a step of a fetch goroutine of fetchAllFeeds (the dispatcher's start of it
\* is not one)
taskStep == \E f \in Feeds : pc[f] # "idle" /\ pc'[f] # pc[f]

\* a step of a worker of fetchAllRSS (the start of the pool is not one)
workerStep == \E w \in Workers : wpc[w] # "none" /\ wpc'[w] # wpc[w]

\* sequence t is sequence s with one element appended
oneMore(s, t) == Len(t) = Len(s) + 1 /\ SubSeq(t, 1, Len(s)) = s

\* fetchAllFeeds: the tally and results change only in a step of the collection
\* loop; a goroutine's step leaves them alone and at most appends one result
\* to the channel, and after its send it never touches the channel again
tasksOnlyPublish ==
    variant = "feeds" =>
        /\ (problems' # problems \/ results' # results) =>
              /\ mainpc = "collect" /\ ~taskStep
              /\ resultChan # <<>> /\ resultChan' = Tail(resultChan)
              /\ oneMore(results, results')
        /\ taskStep =>
              /\ problems' = problems /\ results' = results
              /\ resultChan' = resultChan \/ oneMore(resultChan, resultChan')
        /\ \A f \in Feeds :
              (pc[f] \in {"release", "wgdone", "exit"} /\ pc'[f] # pc[f]) =>
                  resultChan' = resultChan

\* C31 as stated, for both pipelines: the collections of results and the
\* tally change in no step of a fetch task or of a pool worker.
C31_SingleWriter ==
    [][/\ tasksOnlyPublish
       /\ (variant = "rss" /\ workerStep) =>
              articles' = articles /\ errs' = errs /\ globalStats' = globalStats]_vars

\* C31 amended: in fetchAllFeeds the tasks only publish and the collection
\* loop alone writes; in fetchAllRSS the workers write themselves, one whole
\* update at a time (the mutex): a step appends one article or one error,
\* never both, and changes no earlier entry.
C31_SingleWriterOrMutex ==
    [][/\ tasksOnlyPublish
       /\ variant = "rss" =>
              /\ articles' = articles \/ (workerStep /\ oneMore(articles, articles'))
              /\ errs' = errs \/ (workerStep /\ oneMore(errs, errs'))
              /\ articles' = articles \/ errs' = errs]_vars

\* a goroutine has sent its result and is not yet gone, while the collection
\* loop has already received a result and another one waits in the channel
C31_Witness ==
    /\ variant = "feeds" /\ mainpc = "collect"
    /\ \E f \in Feeds : pc[f] \in {"release", "wgdone"}
    /\ results # <<>> /\ resultChan # <<>>

\* --------------------------------------------------------------------- C32
\* the retry controller of f has returned after limitN attempts that all failed
allAttemptsFailed(f) ==
    /\ atReturn(f)
    /\ Len(log[f]) = limitN
    /\ \A j \in DOMAIN log[f] : ~log[f][j].ok

\* C32: a retry controller whose N attempts all failed has waited exactly
\* N - 1 times, once between each two attempts and not after the last one,
\* and returns the failure of the last attempt.
C32_NoWaitAfterLastAttempt ==
    \A f \in Feeds :
       allAttemptsFailed(f) =>
          /\ Len(waits[f]) = limitN - 1
          /\ HasAttempt(ret[f].err, limitN)

\* --------------------------------------------------------------------- C33
\* how often link occurs in a list of links
listed(list, link) == Cardinality({k \in DOMAIN list : list[k] = link})

\* the failed step of an erroneous result, read off the error it wraps: the
\* test for entries, or else the retried fetch
failedAtEntries(r) == r.Err.cause.text = <<"no content">>

\* fetchAllFeeds has returned
afterFetchAllFeeds ==
    variant = "feeds" /\ mainpc \in {"returned", "sorted", "compare", "upload", "done"}

\* C33: after fetchAllFeeds every erroneous result is listed once, under
\* feedEmpties and not under parseFails when its feed parsed without entries,
\* under parseFails and not under feedEmpties when its retries were exhausted,
\* whatever the text of its URL; so the successes, parseFails and feedEmpties
\* add up to the number of results.
C33_ClassifiedByFailedStep ==
    afterFetchAllFeeds =>
        /\ \A k \in DOMAIN results :
              results[k].Err # Nil =>
                 IF failedAtEntries(results[k])
                 THEN /\ listed(problems.feedEmpties, results[k].FeedLink) = 1
                      /\ listed(problems.parseFails, results[k].FeedLink) = 0
                 ELSE /\ listed(problems.parseFails, results[k].FeedLink) = 1
                      /\ listed(problems.feedEmpties, results[k].FeedLink) = 0
        /\ Cardinality(successes) + Len(problems.parseFails) + Len(problems.feedEmpties)
              = Len(results)

\* --------------------------------------------------------------------- C34
\* the articles of the two collections compared
compared ==
    {newArticles[k] : k \in DOMAIN newArticles}
        \cup {existingArticles[k] : k \in DOMAIN existingArticles}

\* C34: articles with different (blog name, title, link) have different keys,
\* also when the fields contain the texts "|Title:" or "|Link:", so
\* areArticlesIdentical never holds of two collections whose identities differ
\* or occur a different number of times.
C34_KeysAreInjective ==
    (variant = "keys" /\ mainpc = "compared") =>
       /\ \A a, b \in compared :
             articleToKey(a) = articleToKey(b) =>
                a.BlogName = b.BlogName /\ a.Title = b.Title /\ a.Link = b.Link
       /\ identical.v => sameIdentities(newArticles, existingArticles)

\* --------------------------------------------------------------------- C35
\* C35: the results sent and not yet received never exceed the buffer of
\* resultChan, len(rssLinks), and a goroutine that is about to send always
\* finds room in it, also while the dispatch loop still runs and nothing is
\* received.
C35_SendNeverBlocks ==
    variant = "feeds" =>
        /\ Len(resultChan) <= Len(rssLinks)
        /\ \A f \in Feeds : pc[f] = "fetched" => Len(resultChan) < Len(rssLinks)

\* the dispatch loop has not ended, all results but one wait in the channel
\* and the last goroutine is about to send
C35_Witness ==
    /\ variant = "feeds" /\ mainpc = "dispatch"
    /\ Len(rssLinks) = 3 /\ Len(resultChan) = 2
    /\ \E f \in Feeds : pc[f] = "fetched"

\* --------------------------------------------------------------------- C36
\* the links the dispatch loop starts a goroutine for
dispatched == {f \in DOMAIN rssLinks : ~IsBlank(rssLinks[f])}

\* C36: resultChan is closed at most once, and only when the dispatch loop has
\* ended and every goroutine it started has sent and is gone, so no send meets
\* the closed channel; and the collection loop ends only on the closed
\* channel, having received the result of every goroutine.
C36_ClosedOnceAfterAllSent ==
    variant = "feeds" =>
        /\ chanClosed <= 1
        /\ chanClosed > 0 =>
              /\ mainpc # "dispatch"
              /\ \A f \in dispatched : pc[f] = "exit"
              /\ Len(results) + Len(resultChan) = Cardinality(dispatched)
        /\ mainpc \in {"returned", "sorted", "compare", "upload", "done"} =>
              /\ chanClosed = 1
              /\ resultChan = <<>>
              /\ Len(results) = Cardinality(dispatched)

\* the channel is closed while the collection loop still has results to
\* receive from it
C36_Witness ==
    /\ variant = "feeds" /\ mainpc = "collect"
    /\ chanClosed = 1 /\ Len(resultChan) >= 2

\* --------------------------------------------------------------------- C37
\* the read of the stored collection failed: no answer, or a status that is
\* neither 200 nor 404
readFailed == store # Nil /\ (store.neterr \/ store.status \notin {200, 404})

\* C37: when the stored collection could not be read for another reason than
\* its absence, getExistingData returns an error, main logs it, does not
\* compare, and goes on to marshal the new collection and to hand it to the
\* upload of the save target; the run does not end as "no update needed".
C37_ReadErrorStillUploads ==
    (variant = "feeds" /\ mainpc \in {"compare", "upload", "done"} /\ readFailed) =>
        /\ existingErr # Nil
        /\ Contains(appLog, <<"[ERROR]", "existing data">>)
        /\ ~Contains(appLog, <<"no update needed">>)
        /\ mainpc \in {"upload", "done"} => identical = Nil
        /\ mainpc = "done" =>
              /\ Len(uploads) = 1
              /\ uploads[1].target = store.target
              /\ Unmarshal(uploads[1].data).err = Nil
              /\ Unmarshal(uploads[1].data).val.Items = newArticles

\* a run whose read of the stored data was answered 500 has handed its one
\* article to the upload
C37_Witness ==
    /\ variant = "feeds" /\ mainpc = "done"
    /\ readFailed /\ ~store.neterr /\ store.status = 500
    /\ Len(newArticles) = 1 /\ Len(uploads) = 1

\* --------------------------------------------------------------------- C38
\* C38: on every path of main, the one where processor.Run fails included, no
\* message is sent on a log channel that CloseLogger has closed, no channel is
\* closed twice, and CloseLogger is called at most once.
C38_NoUseAfterClose ==
    variant = "cmd" =>
        /\ panicMsg = ""
        /\ closeCalls <= 1

\* --------------------------------------------------------------------- C39
\* the messages of channel k that are in its file
written(k) == {logFile[k].lines[j] : j \in DOMAIN logFile[k].lines}

\* C39: once CloseLogger has closed the log files, every message that LogError
\* or LogSummary sent before is in its file, whatever the workers have done
\* meanwhile; so when the program has ended, the run summary is in the
\* summary log.
C39_WrittenBeforeClose ==
    variant = "cmd" =>
        /\ \A k \in LogKinds :
              ~logFile[k].open =>
                  \A j \in DOMAIN handed[k] : handed[k][j] \in written(k)
        /\ (mainpc = "exited" /\ handed["summary"] # <<>>) => <<"summary">> \in written("summary")
====
